---- MODULE Spec2Model ----
(***************************************************************************)
(* Trace-context derivation, ambient storage and handler adapters of the   *)
(* aws-tracing-test repository (src/src/util/tracing-utils.ts, second      *)
(* revision, and the adapters built on it).                                *)
(*                                                                         *)
(* Strings are sequences of one-character strings, so that the regular     *)
(* expressions, toLowerCase and the hex formatting are computed character  *)
(* by character.  A JavaScript value of type `string | undefined` is a     *)
(* record [def, s]: Undefined has def = FALSE.                             *)
(***************************************************************************)
EXTENDS Integers, Sequences, FiniteSets, TLC

VARIABLES
    envUpper,     \* process.env._X_AMZN_TRACE_ID
    envLower,     \* process.env._x_amzn_trace_id
    segment,      \* what AWSXRay.getSegment() yields
    callerStore,  \* the AsyncLocalStorage store of the execution calling an extractor
    lastCall,     \* the last extractor call: its input and its outcome
    tasks,        \* async executions: captured-store chain, pending error, last read
    ranLast,      \* the execution whose continuation ran last (0: none)
    sqs,          \* one tracedSqsHandler invocation
    api,          \* one tracedApiGatewayHandler invocation
    evt,          \* one tracedEventHandler invocation
    lam,          \* TracingContext of the tracing-test lambda: als instance, objects, executions
    snd           \* one invocation of the event-sender handler

vars ==
    <<envUpper, envLower, segment, callerStore, lastCall, tasks, ranLast, sqs, api, evt,
      lam, snd>>

backendVars == <<envUpper, envLower, segment>>

extractVars == <<callerStore, lastCall>>

alsVars == <<tasks, ranLast>>

-----------------------------------------------------------------------------
(* Characters and strings *)

UpperAlpha == <<"A","B","C","D","E","F","G","H","I","J","K","L","M",
                "N","O","P","Q","R","S","T","U","V","W","X","Y","Z">>

LowerAlpha == <<"a","b","c","d","e","f","g","h","i","j","k","l","m",
                "n","o","p","q","r","s","t","u","v","w","x","y","z">>

DigitChars == <<"0","1","2","3","4","5","6","7","8","9">>

HexDigitChars == <<"0","1","2","3","4","5","6","7","8","9","a","b","c","d","e","f">>

Range(f) == { f[i] : i \in DOMAIN f }

RepC(c, n) == [i \in 1..n |-> c]

Str(s) == [def |-> TRUE, s |-> s]

Undefined == [def |-> FALSE, s |-> <<>>]

(* JavaScript truthiness of a `string | undefined` value *)
Truthy(v) == v.def /\ v.s # <<>>

(* a || b *)
OrElse(a, b) == IF Truthy(a) THEN a ELSE b

(* a ?? b *)
Coalesce(a, b) == IF a.def THEN a ELSE b

toLowerCaseChar(c) ==
    IF \E i \in DOMAIN UpperAlpha : UpperAlpha[i] = c
    THEN LowerAlpha[CHOOSE i \in DOMAIN UpperAlpha : UpperAlpha[i] = c]
    ELSE c

toLowerCase(s) == [i \in DOMAIN s |-> toLowerCaseChar(s[i])]

(* s has the literal lit at position i *)
HasAt(s, i, lit) ==
    /\ i >= 1
    /\ i + Len(lit) - 1 <= Len(s)
    /\ \A k \in 1..Len(lit) : s[i + k - 1] = lit[k]

(* [0-9a-f] under the i flag *)
IsHexChar(c) == toLowerCaseChar(c) \in Range(HexDigitChars)

(* \d *)
IsDigitChar(c) == c \in Range(DigitChars)

(* [\w-] *)
IsWordOrDash(c) ==
    c \in Range(DigitChars) \cup Range(LowerAlpha) \cup Range(UpperAlpha) \cup {"_", "-"}

Min(S) == CHOOSE x \in S : \A y \in S : x <= y

-----------------------------------------------------------------------------
(* Program constants *)

TRACE_ID_HEADER == <<"X","-","T","r","a","c","e","-","I","d">>

TsWidth == 8

RandWidth == 24

RandomByteCount == 12

-----------------------------------------------------------------------------
(* TraceId: pure helpers *)

(* XRAY_TRACE_ID_REGEX = /(?:Root=)?1-([0-9a-f]{8})-([0-9a-f]{24})/i.        *)
(* CoreAt(s, i): "1-<8 hex>-<24 hex>" starts at i.  The optional prefix      *)
(* does not change which groups the leftmost match captures: "=" cannot lie  *)
(* inside an earlier core.                                                   *)
CoreAt(s, i) ==
    /\ i >= 1
    /\ i + 2 + TsWidth + RandWidth <= Len(s)
    /\ s[i] = "1"
    /\ s[i + 1] = "-"
    /\ \A k \in 1..TsWidth : IsHexChar(s[i + 1 + k])
    /\ s[i + 2 + TsWidth] = "-"
    /\ \A k \in 1..RandWidth : IsHexChar(s[i + 2 + TsWidth + k])

extractRootTraceId(traceValue) ==
    IF ~Truthy(traceValue) THEN Undefined
    ELSE LET s == traceValue.s
             hits == { i \in 1..Len(s) : CoreAt(s, i) }
         IN IF hits = {} THEN Undefined
            ELSE LET i == Min(hits)
                 IN Str(SubSeq(s, i + 2, i + 1 + TsWidth)
                        \o SubSeq(s, i + 3 + TsWidth, i + 2 + TsWidth + RandWidth))

(* xrayEnv.match(/Sampled=(\d)/)?.[1] === "1" *)
SampledLit == <<"S","a","m","p","l","e","d","=">>

isSampled(s) ==
    LET hits == { i \in 1..Len(s) :
                    /\ HasAt(s, i, SampledLit)
                    /\ i + Len(SampledLit) <= Len(s)
                    /\ IsDigitChar(s[i + Len(SampledLit)]) }
    IN hits # {} /\ s[Min(hits) + Len(SampledLit)] = "1"

(* process.env[XRAY_ENV_VAR] || process.env[XRAY_ENV_VAR.toLowerCase()] *)
getXRayEnv(rt) == OrElse(rt.envUpper, rt.envLower)

(* AWSXRay.getSegment?.() inside try/catch: a throwing SDK yields undefined *)
getCurrentSegment(rt) ==
    IF rt.segment.kind = "segment" THEN rt.segment
    ELSE [kind |-> "none", trace_id |-> Undefined, id |-> Undefined]

getRootTraceIdFromSegment(seg) ==
    IF seg.kind = "segment" THEN extractRootTraceId(seg.trace_id) ELSE Undefined

getRootTraceIdFromEnvironment(rt) == extractRootTraceId(getXRayEnv(rt))

(* xrayEnv.match(/Parent=([\w-]+)/), else segment.id *)
ParentLit == <<"P","a","r","e","n","t","=">>

getSpanIdFromXRay(xrayEnv, seg) ==
    LET s == xrayEnv.s
        hits == IF Truthy(xrayEnv)
                THEN { i \in 1..Len(s) :
                         /\ HasAt(s, i, ParentLit)
                         /\ i + Len(ParentLit) <= Len(s)
                         /\ IsWordOrDash(s[i + Len(ParentLit)]) }
                ELSE {}
    IN IF hits # {}
       THEN LET b == Min(hits) + Len(ParentLit)
                e == CHOOSE j \in b..Len(s) :
                        /\ \A k \in b..j : IsWordOrDash(s[k])
                        /\ (j = Len(s) \/ ~IsWordOrDash(s[j + 1]))
            IN Str(SubSeq(s, b, e))
       ELSE IF seg.kind = "segment" /\ seg.id.def THEN seg.id
       ELSE Undefined

(* Number.prototype.toString(16) *)
RECURSIVE toHexString(_)
toHexString(n) ==
    IF n < 16 THEN <<HexDigitChars[n + 1]>>
    ELSE toHexString(n \div 16) \o <<HexDigitChars[(n % 16) + 1]>>

padStart(s, width, c) ==
    IF Len(s) >= width THEN s ELSE RepC(c, width - Len(s)) \o s

(* Buffer.toString("hex") *)
RECURSIVE bytesToHex(_)
bytesToHex(bytes) ==
    IF bytes = <<>> THEN <<>>
    ELSE <<HexDigitChars[(Head(bytes) \div 16) + 1], HexDigitChars[(Head(bytes) % 16) + 1]>>
         \o bytesToHex(Tail(bytes))

(* generate(): epoch seconds in hex, padded to 8, then 12 random bytes in hex. *)
(* g = [epoch |-> Math.floor(Date.now() / 1000), random |-> randomBytes(12)]   *)
generate(g) ==
    Str(padStart(toHexString(g.epoch), TsWidth, "0") \o bytesToHex(g.random))

(* Mutation of getHeader: the name is looked up as given, then in lower case *)
getHeader_exactKey(headers, headerName) ==
    LET exact == { i \in 1..Len(headers) : headers[i].key = headerName }
        lower == { i \in 1..Len(headers) : headers[i].key = toLowerCase(headerName) }
    IN IF exact # {} /\ headers[Min(exact)].value.def THEN headers[Min(exact)].value
       ELSE IF lower # {} THEN headers[Min(lower)].value
       ELSE Undefined

(* getHeader: the first key, in property order, equal to the name up to case *)
getHeader(headers, headerName) ==
    LET target == toLowerCase(headerName)
        hits == { i \in 1..Len(headers) : toLowerCase(headers[i].key) = target }
    IN IF hits = {} THEN Undefined ELSE headers[Min(hits)].value

-----------------------------------------------------------------------------
(* TraceContext objects and the AsyncLocalStorage store.                     *)
(* An object is [active, has, traceId, spanId, xrayEnv]: `has` is the set of *)
(* its own keys (a key may be present and hold undefined); active = FALSE is *)
(* als.getStore() === undefined.                                             *)

NoStore ==
    [active |-> FALSE, has |-> {}, traceId |-> Undefined, spanId |-> Undefined,
     xrayEnv |-> Undefined]

EmptyObject ==
    [active |-> TRUE, has |-> {}, traceId |-> Undefined, spanId |-> Undefined,
     xrayEnv |-> Undefined]

(* { traceId } *)
TraceIdOnly(traceId) ==
    [active |-> TRUE, has |-> {"traceId"}, traceId |-> traceId, spanId |-> Undefined,
     xrayEnv |-> Undefined]

(* { traceId, spanId, xrayEnv } *)
MakeContext(traceId, spanId, xrayEnv) ==
    [active |-> TRUE, has |-> {"traceId", "spanId", "xrayEnv"}, traceId |-> traceId,
     spanId |-> spanId, xrayEnv |-> xrayEnv]

(* { ...current, ...ctx }: every own key of ctx wins, also one holding undefined *)
SpreadMerge(current, ctx) ==
    [active  |-> TRUE,
     has     |-> current.has \cup ctx.has,
     traceId |-> IF "traceId" \in ctx.has THEN ctx.traceId ELSE current.traceId,
     spanId  |-> IF "spanId" \in ctx.has THEN ctx.spanId ELSE current.spanId,
     xrayEnv |-> IF "xrayEnv" \in ctx.has THEN ctx.xrayEnv ELSE current.xrayEnv]

(* TracingContext.getTraceId(): getStore()?.traceId || "" *)
getTraceId(store) ==
    IF store.active /\ Truthy(store.traceId) THEN store.traceId.s ELSE <<>>

(* TracingContext.getXRayEnv(): getStore()?.xrayEnv *)
getStoreXRayEnv(store) == IF store.active THEN store.xrayEnv ELSE Undefined

(* Mutation of nextStore: the fields of the current store win over ctx. *)
nextStore_currentWins(store, ctx) ==
    SpreadMerge(ctx, IF store.active THEN store ELSE EmptyObject)

(* Mutation of nextStore: the new context replaces the current one. *)
nextStore_replace(store, ctx) == SpreadMerge(EmptyObject, ctx)

(* const current = this.getStore() || {}; const next = { ...current, ...ctx } *)
nextStore(store, ctx) == SpreadMerge(IF store.active THEN store ELSE EmptyObject, ctx)

-----------------------------------------------------------------------------
(* TraceId: the two extractors.  rt is the state of the tracing backend seen *)
(* by the call: [envUpper, envLower, segment, store].                        *)

getXRayTracingAvailability(rt) ==
    LET contextEnv == getStoreXRayEnv(rt.store)
        xrayEnv == Coalesce(contextEnv, getXRayEnv(rt))
    IN IF ~Truthy(xrayEnv)
       THEN [isTracingEnabled |-> FALSE, envVar |-> Undefined]
       ELSE [isTracingEnabled |-> isSampled(xrayEnv.s) /\ Truthy(extractRootTraceId(xrayEnv)),
             envVar |-> xrayEnv]

(* Mutation of fromAPIGatewayEvent: the header is tested with               *)
(* `!== undefined` instead of for truthiness.                                *)
fromAPIGatewayEvent_definedTest(event, rt, g) ==
    LET headers == IF event.hasHeaders THEN event.headers ELSE <<>>
        xrayAvailability == getXRayTracingAvailability(rt)
        xrayEnv == xrayAvailability.envVar
        seg == getCurrentSegment(rt)
        spanId == getSpanIdFromXRay(xrayEnv, seg)
        explicitTraceId == getHeader(headers, TRACE_ID_HEADER)
        awsTraceFromEnv == extractRootTraceId(xrayEnv)
        awsTraceFromSegment == getRootTraceIdFromSegment(seg)
    IN IF explicitTraceId.def THEN MakeContext(explicitTraceId, spanId, xrayEnv)
       ELSE IF xrayAvailability.isTracingEnabled /\ Truthy(awsTraceFromEnv)
            THEN MakeContext(awsTraceFromEnv, spanId, xrayEnv)
       ELSE IF xrayAvailability.isTracingEnabled /\ Truthy(awsTraceFromSegment)
            THEN MakeContext(awsTraceFromSegment, spanId, xrayEnv)
       ELSE MakeContext(generate(g), spanId, xrayEnv)

(* Mutation of fromAPIGatewayEvent: the X-Ray environment value is tried      *)
(* before the explicit header.                                               *)
fromAPIGatewayEvent_envFirst(event, rt, g) ==
    LET headers == IF event.hasHeaders THEN event.headers ELSE <<>>
        xrayAvailability == getXRayTracingAvailability(rt)
        xrayEnv == xrayAvailability.envVar
        seg == getCurrentSegment(rt)
        spanId == getSpanIdFromXRay(xrayEnv, seg)
        explicitTraceId == getHeader(headers, TRACE_ID_HEADER)
        awsTraceFromEnv == extractRootTraceId(xrayEnv)
        awsTraceFromSegment == getRootTraceIdFromSegment(seg)
    IN IF xrayAvailability.isTracingEnabled /\ Truthy(awsTraceFromEnv)
       THEN MakeContext(awsTraceFromEnv, spanId, xrayEnv)
       ELSE IF Truthy(explicitTraceId) THEN MakeContext(explicitTraceId, spanId, xrayEnv)
       ELSE IF xrayAvailability.isTracingEnabled /\ Truthy(awsTraceFromSegment)
            THEN MakeContext(awsTraceFromSegment, spanId, xrayEnv)
       ELSE MakeContext(generate(g), spanId, xrayEnv)

(* event = [hasHeaders, headers]; g feeds generate() *)
fromAPIGatewayEvent(event, rt, g) ==
    LET headers == IF event.hasHeaders THEN event.headers ELSE <<>>
        xrayAvailability == getXRayTracingAvailability(rt)
        xrayEnv == xrayAvailability.envVar
        seg == getCurrentSegment(rt)
        spanId == getSpanIdFromXRay(xrayEnv, seg)
        explicitTraceId == getHeader(headers, TRACE_ID_HEADER)
        awsTraceFromEnv == extractRootTraceId(xrayEnv)
        awsTraceFromSegment == getRootTraceIdFromSegment(seg)
    IN IF Truthy(explicitTraceId) THEN MakeContext(explicitTraceId, spanId, xrayEnv)
       ELSE IF xrayAvailability.isTracingEnabled /\ Truthy(awsTraceFromEnv)
            THEN MakeContext(awsTraceFromEnv, spanId, xrayEnv)
       ELSE IF xrayAvailability.isTracingEnabled /\ Truthy(awsTraceFromSegment)
            THEN MakeContext(awsTraceFromSegment, spanId, xrayEnv)
       ELSE MakeContext(generate(g), spanId, xrayEnv)

(* tracedEvent.detail?.traceId: detail is absent, an object, or a string     *)
(* (a string primitive has no traceId property)                              *)
detailTraceId(detail) == IF detail.kind = "object" THEN detail.traceId ELSE Undefined

(* Mutation of fromTracedEvent: the explicit ids are tested with             *)
(* `!== undefined` instead of for truthiness.                                *)
fromTracedEvent_definedTest(tracedEvent, rt, g) ==
    LET xrayEnv == getXRayEnv(rt)
        seg == getCurrentSegment(rt)
        spanId == getSpanIdFromXRay(xrayEnv, seg)
        xrayAvailability == getXRayTracingAvailability(rt)
        awsTraceFromEnv == getRootTraceIdFromEnvironment(rt)
        awsTraceFromSegment == getRootTraceIdFromSegment(seg)
    IN IF tracedEvent.traceId.def THEN MakeContext(tracedEvent.traceId, spanId, xrayEnv)
       ELSE IF detailTraceId(tracedEvent.detail).def
            THEN MakeContext(detailTraceId(tracedEvent.detail), spanId, xrayEnv)
       ELSE IF xrayAvailability.isTracingEnabled /\ Truthy(awsTraceFromEnv)
            THEN MakeContext(awsTraceFromEnv, spanId, xrayEnv)
       ELSE IF xrayAvailability.isTracingEnabled /\ Truthy(awsTraceFromSegment)
            THEN MakeContext(awsTraceFromSegment, spanId, xrayEnv)
       ELSE MakeContext(generate(g), spanId, xrayEnv)

(* Mutation of fromTracedEvent: detail.traceId is tested before the          *)
(* top-level traceId.                                                        *)
fromTracedEvent_detailFirst(tracedEvent, rt, g) ==
    LET xrayEnv == getXRayEnv(rt)
        seg == getCurrentSegment(rt)
        spanId == getSpanIdFromXRay(xrayEnv, seg)
        xrayAvailability == getXRayTracingAvailability(rt)
        awsTraceFromEnv == getRootTraceIdFromEnvironment(rt)
        awsTraceFromSegment == getRootTraceIdFromSegment(seg)
    IN IF Truthy(detailTraceId(tracedEvent.detail))
       THEN MakeContext(detailTraceId(tracedEvent.detail), spanId, xrayEnv)
       ELSE IF Truthy(tracedEvent.traceId)
            THEN MakeContext(tracedEvent.traceId, spanId, xrayEnv)
       ELSE IF xrayAvailability.isTracingEnabled /\ Truthy(awsTraceFromEnv)
            THEN MakeContext(awsTraceFromEnv, spanId, xrayEnv)
       ELSE IF xrayAvailability.isTracingEnabled /\ Truthy(awsTraceFromSegment)
            THEN MakeContext(awsTraceFromSegment, spanId, xrayEnv)
       ELSE MakeContext(generate(g), spanId, xrayEnv)

(* tracedEvent = [traceId, detail] *)
fromTracedEvent(tracedEvent, rt, g) ==
    LET xrayEnv == getXRayEnv(rt)
        seg == getCurrentSegment(rt)
        spanId == getSpanIdFromXRay(xrayEnv, seg)
        xrayAvailability == getXRayTracingAvailability(rt)
        awsTraceFromEnv == getRootTraceIdFromEnvironment(rt)
        awsTraceFromSegment == getRootTraceIdFromSegment(seg)
    IN IF Truthy(tracedEvent.traceId) THEN MakeContext(tracedEvent.traceId, spanId, xrayEnv)
       ELSE IF Truthy(detailTraceId(tracedEvent.detail))
            THEN MakeContext(detailTraceId(tracedEvent.detail), spanId, xrayEnv)
       ELSE IF xrayAvailability.isTracingEnabled /\ Truthy(awsTraceFromEnv)
            THEN MakeContext(awsTraceFromEnv, spanId, xrayEnv)
       ELSE IF xrayAvailability.isTracingEnabled /\ Truthy(awsTraceFromSegment)
            THEN MakeContext(awsTraceFromSegment, spanId, xrayEnv)
       ELSE MakeContext(generate(g), spanId, xrayEnv)

(* toHttpHeaders(traceId?): the id given, else the ambient one; no header    *)
(* for an empty id                                                           *)
toHttpHeaders(traceId, store) ==
    LET id == Coalesce(traceId, Str(getTraceId(store)))
    IN IF Truthy(id) THEN <<[key |-> TRACE_ID_HEADER, value |-> id]>> ELSE <<>>

-----------------------------------------------------------------------------
(* JSON.  Values are [t, s, n, fields]: t is "undefined", "null", "string",  *)
(* "number" or "object"; an object is the sequence of its [key, value]       *)
(* members in insertion order.  JSONparse and JSONstringify work on the text, *)
(* character by character, over objects, strings with the \" and \\ escapes,  *)
(* non-negative integers and null.                                            *)

JUndefined == [t |-> "undefined", s |-> <<>>, n |-> 0, fields |-> <<>>]

JNull == [t |-> "null", s |-> <<>>, n |-> 0, fields |-> <<>>]

JString(s) == [t |-> "string", s |-> s, n |-> 0, fields |-> <<>>]

JNumber(n) == [t |-> "number", s |-> <<>>, n |-> n, fields |-> <<>>]

JObject(fields) == [t |-> "object", s |-> <<>>, n |-> 0, fields |-> fields]

(* obj[key]: the value of the last member written under key *)
jsonGet(obj, key) ==
    LET hits == { i \in DOMAIN obj.fields : obj.fields[i].key = key }
    IN IF obj.t # "object" \/ hits = {} THEN JUndefined
       ELSE obj.fields[CHOOSE i \in hits : \A j \in hits : j <= i].value

(* { ...obj, [key]: value } *)
jsonSet(obj, key, value) ==
    IF \E i \in DOMAIN obj.fields : obj.fields[i].key = key
    THEN JObject([i \in DOMAIN obj.fields |->
                     IF obj.fields[i].key = key THEN [key |-> key, value |-> value]
                     ELSE obj.fields[i]])
    ELSE JObject(Append(obj.fields, [key |-> key, value |-> value]))

ParseFail == [ok |-> FALSE, value |-> JUndefined, next |-> 0]

RECURSIVE skipSpaces(_, _)
skipSpaces(text, i) ==
    IF i <= Len(text) /\ text[i] = " " THEN skipSpaces(text, i + 1) ELSE i

(* the characters of a string literal whose opening quote is before i *)
RECURSIVE scanString(_, _, _)
scanString(text, i, acc) ==
    IF i > Len(text) THEN ParseFail
    ELSE IF text[i] = "\"" THEN [ok |-> TRUE, value |-> JString(acc), next |-> i + 1]
    ELSE IF text[i] = "\\"
         THEN IF i + 1 <= Len(text) /\ text[i + 1] \in {"\"", "\\"}
              THEN scanString(text, i + 2, Append(acc, text[i + 1]))
              ELSE ParseFail
    ELSE scanString(text, i + 1, Append(acc, text[i]))

DigitValue(c) == (CHOOSE k \in DOMAIN DigitChars : DigitChars[k] = c) - 1

RECURSIVE scanNumber(_, _, _)
scanNumber(text, i, acc) ==
    IF i <= Len(text) /\ IsDigitChar(text[i])
    THEN scanNumber(text, i + 1, acc * 10 + DigitValue(text[i]))
    ELSE [ok |-> TRUE, value |-> JNumber(acc), next |-> i]

NullLit == <<"n","u","l","l">>

RECURSIVE parseValue(_, _)
RECURSIVE parseMembers(_, _, _)

(* one member "key":value at i, then "," and more members, or "}" *)
parseMembers(text, i, acc) ==
    LET k == skipSpaces(text, i)
    IN IF k > Len(text) \/ text[k] # "\"" THEN ParseFail
       ELSE LET key == scanString(text, k + 1, <<>>)
                c == IF key.ok THEN skipSpaces(text, key.next) ELSE 0
            IN IF ~key.ok \/ c > Len(text) \/ text[c] # ":" THEN ParseFail
               ELSE LET val == parseValue(text, c + 1)
                        e == IF val.ok THEN skipSpaces(text, val.next) ELSE 0
                        obj == jsonSet(JObject(acc), key.value.s, val.value)
                    IN IF ~val.ok \/ e > Len(text) THEN ParseFail
                       ELSE IF text[e] = "}"
                            THEN [ok |-> TRUE, value |-> obj, next |-> e + 1]
                       ELSE IF text[e] = ","
                            THEN parseMembers(text, e + 1, obj.fields)
                       ELSE ParseFail

parseValue(text, i) ==
    LET k == skipSpaces(text, i)
    IN IF k > Len(text) THEN ParseFail
       ELSE IF text[k] = "\"" THEN scanString(text, k + 1, <<>>)
       ELSE IF IsDigitChar(text[k]) THEN scanNumber(text, k, 0)
       ELSE IF HasAt(text, k, NullLit)
            THEN [ok |-> TRUE, value |-> JNull, next |-> k + Len(NullLit)]
       ELSE IF text[k] = "{"
            THEN LET m == skipSpaces(text, k + 1)
                 IN IF m <= Len(text) /\ text[m] = "}"
                    THEN [ok |-> TRUE, value |-> JObject(<<>>), next |-> m + 1]
                    ELSE parseMembers(text, k + 1, <<>>)
       ELSE ParseFail

(* JSON.parse(text): a value, or a SyntaxError (ok = FALSE) *)
JSONparse(text) ==
    LET r == parseValue(text, 1)
    IN IF r.ok /\ skipSpaces(text, r.next) = Len(text) + 1
       THEN [ok |-> TRUE, value |-> r.value]
       ELSE [ok |-> FALSE, value |-> JUndefined]

RECURSIVE escapeString(_)
escapeString(s) ==
    IF s = <<>> THEN <<>>
    ELSE (IF Head(s) \in {"\"", "\\"} THEN <<"\\", Head(s)>> ELSE <<Head(s)>>)
             \o escapeString(Tail(s))

RECURSIVE numberDigits(_)
numberDigits(n) ==
    IF n < 10 THEN <<DigitChars[n + 1]>>
    ELSE numberDigits(n \div 10) \o <<DigitChars[(n % 10) + 1]>>

RECURSIVE JSONstringify(_)
RECURSIVE stringifyMembers(_, _)

(* the members holding a value, separated by commas; undefined ones are     *)
(* left out                                                                  *)
stringifyMembers(fields, first) ==
    IF fields = <<>> THEN <<>>
    ELSE IF Head(fields).value.t = "undefined" THEN stringifyMembers(Tail(fields), first)
    ELSE (IF first THEN <<>> ELSE <<",">>)
             \o <<"\"">> \o escapeString(Head(fields).key) \o <<"\"", ":">>
             \o JSONstringify(Head(fields).value)
             \o stringifyMembers(Tail(fields), FALSE)

JSONstringify(v) ==
    IF v.t = "string" THEN <<"\"">> \o escapeString(v.s) \o <<"\"">>
    ELSE IF v.t = "number" THEN numberDigits(v.n)
    ELSE IF v.t = "object" THEN <<"{">> \o stringifyMembers(v.fields, TRUE) \o <<"}">>
    ELSE NullLit

-----------------------------------------------------------------------------
(* Input values *)

RootLit == <<"R","o","o","t","=">>

Parent1 == <<";">> \o ParentLit \o <<"5","3","9","9","5","c","3","f">>

Sampled1 == <<";">> \o SampledLit \o <<"1">>

Sampled0 == <<";">> \o SampledLit \o <<"0">>

TsA == <<"5","e","1","b","3","c","4","d">>

TsB == <<"6","f","2","c","4","d","5","e">>

(* upper-case hex: the regular expression carries the i flag *)
TsC == <<"7","A","3","D","5","E","6","F">>

CoreA == <<"1","-">> \o TsA \o <<"-">> \o RepC("a", RandWidth)

CoreB == <<"1","-">> \o TsB \o <<"-">> \o RepC("b", RandWidth)

CoreC == <<"1","-">> \o TsC \o <<"-">> \o RepC("C", RandWidth)

(* Root=1-5e1b3c4d-aaaaaaaaaaaaaaaaaaaaaaaa;Parent=53995c3f;Sampled=1 *)
EnvSampledA == RootLit \o CoreA \o Parent1 \o Sampled1

(* Root=1-6f2c4d5e-bbbbbbbbbbbbbbbbbbbbbbbb;Parent=53995c3f;Sampled=0 *)
EnvUnsampledB == RootLit \o CoreB \o Parent1 \o Sampled0

(* Sampled=1 but the random part is too short to be a root id *)
EnvNoRoot == RootLit \o <<"1","-">> \o TsA \o <<"-">> \o RepC("a", 4) \o Sampled1

(* a valid root and no Sampled flag *)
EnvNoFlag == RootLit \o CoreB \o Parent1

EnvValues ==
    {Undefined, Str(<<>>), Str(EnvSampledA), Str(EnvUnsampledB), Str(EnvNoRoot),
     Str(EnvNoFlag)}

EnvLowerValues == {Undefined, Str(EnvSampledA)}

NoSegment == [kind |-> "none", trace_id |-> Undefined, id |-> Undefined]

(* AWSXRay.getSegment() throws outside a segment in the SDK's default mode *)
SegmentThrows == [kind |-> "throws", trace_id |-> Undefined, id |-> Undefined]

SegId == <<"s","e","g","1">>

Segments ==
    {NoSegment, SegmentThrows,
     [kind |-> "segment", trace_id |-> Str(CoreC), id |-> Str(SegId)],
     [kind |-> "segment", trace_id |-> Undefined, id |-> Undefined]}

IdAbc == <<"a","b","c","1","2","3">>

IdReq42 == <<"r","e","q","-","4","2">>

IdX == <<"X">>

IdY == <<"Y">>

HeaderKeys ==
    { <<"x","-","t","r","a","c","e","-","i","d">>,
      TRACE_ID_HEADER,
      <<"h","o","s","t">> }

HeaderValues == {Undefined, Str(<<>>), Str(IdAbc)}

MaxHeaders == 2

(* header mappings: objects have distinct keys, enumerated in insertion     *)
(* order; a header other than the trace-id header holds a value              *)
HeaderMaps ==
    { h \in UNION { [1..n -> [key : HeaderKeys, value : HeaderValues]] : n \in 0..MaxHeaders } :
        /\ \A i, j \in 1..Len(h) : i # j => h[i].key # h[j].key
        /\ \A i \in 1..Len(h) :
              toLowerCase(h[i].key) # toLowerCase(TRACE_ID_HEADER) => Truthy(h[i].value) }

UpperCaseHeader == <<"X","-","T","R","A","C","E","-","I","D">>

(* requests of a client that sends the header name in capitals *)
UpperCaseHeaderMaps ==
    { <<[key |-> UpperCaseHeader, value |-> Str(IdReq42)]>>,
      <<[key |-> <<"h","o","s","t">>, value |-> Str(IdAbc)],
        [key |-> UpperCaseHeader, value |-> Str(IdReq42)]>> }

ApiEvents ==
    {[hasHeaders |-> FALSE, headers |-> <<>>]}
        \cup { [hasHeaders |-> TRUE, headers |-> h] : h \in HeaderMaps \cup UpperCaseHeaderMaps }

RawJsonText == <<"{","n","o","t">>

IdEvt7 == <<"e","v","t","-","7">>

(* '{"traceId":"evt-7"}' *)
EncodedDetailText == JSONstringify(JObject(<<[key |-> <<"t","r","a","c","e","I","d">>,
                                             value |-> JString(IdEvt7)]>>))

Details ==
    {[kind |-> "absent", traceId |-> Undefined, raw |-> <<>>],
     [kind |-> "string", traceId |-> Undefined, raw |-> RawJsonText],
     [kind |-> "string", traceId |-> Undefined, raw |-> EncodedDetailText]}
        \cup { [kind |-> "object", traceId |-> v, raw |-> <<>>] :
                 v \in {Undefined, Str(<<>>), Str(IdY), Str(IdX)} }

TracedEvents == [traceId : {Undefined, Str(<<>>), Str(IdX)}, detail : Details]

(* stores an execution may be running under when it calls an extractor *)
CallerStores ==
    {NoStore, TraceIdOnly(Str(IdAbc)),
     MakeContext(Str(IdAbc), Undefined, Str(<<>>)),
     MakeContext(Str(IdAbc), Undefined, Str(EnvSampledA)),
     MakeContext(Str(IdAbc), Undefined, Str(EnvUnsampledB))}

GenInputs ==
    { [epoch |-> 1710268850, random |-> [i \in 1..RandomByteCount |-> (i * 37) % 256]],
      [epoch |-> 255, random |-> [i \in 1..RandomByteCount |-> 0]] }

-----------------------------------------------------------------------------
(* State *)

Runtime == [envUpper |-> envUpper, envLower |-> envLower, segment |-> segment,
            store |-> callerStore]

NoCall ==
    [fn |-> "none", api |-> [hasHeaders |-> FALSE, headers |-> <<>>],
     ev |-> [traceId |-> Undefined,
             detail |-> [kind |-> "absent", traceId |-> Undefined, raw |-> <<>>]],
     rt |-> [envUpper |-> Undefined, envLower |-> Undefined, segment |-> NoSegment,
             store |-> NoStore],
     g |-> [epoch |-> 0, random |-> <<>>],
     result |-> NoStore, eb |-> JUndefined, threw |-> FALSE,
     sender |-> NoStore, sent |-> <<>>]

MaxTasks == 2

MaxScopes == 3

TaskIds == 1..MaxTasks

IdleTask ==
    [status |-> "idle", chain |-> <<>>, base |-> NoStore, given |-> <<>>, before |-> <<>>,
     prior |-> NoStore, read |-> <<>>, op |-> "none", err |-> "none", thrown |-> "none"]

InitTasks == [t \in TaskIds |-> IdleTask]

MaxRecords == 3

NoDetail == [kind |-> "absent", traceId |-> Undefined, raw |-> <<>>]

NoWrapped == [present |-> FALSE, traceId |-> Undefined, detail |-> NoDetail]

(* JSON bodies by what JSON.parse makes of them: a syntax error, null, or an  *)
(* object with the fields the extractors look at                             *)
InvalidBody == [kind |-> "invalid", traceId |-> Undefined, detail |-> NoDetail, event |-> NoWrapped]

ObjectBody(traceId, detail, wrapped) ==
    [kind |-> "object", traceId |-> traceId, detail |-> detail, event |-> wrapped]

(* the records a batch is cut from: a trace-id message attribute, a body     *)
(* with a top-level traceId, a body that is not JSON, and a Step Functions   *)
(* style body with the id under event.detail                                 *)
RecordCatalogue ==
    << [messageId |-> <<"m","1">>, attr |-> Str(<<"a","t","t","r","-","1">>),
        body |-> ObjectBody(Undefined, NoDetail, NoWrapped)],
       [messageId |-> <<"m","2">>, attr |-> Undefined,
        body |-> ObjectBody(Str(IdX), NoDetail, NoWrapped)],
       [messageId |-> <<"m","3">>, attr |-> Undefined, body |-> InvalidBody],
       [messageId |-> <<"m","4">>, attr |-> Undefined,
        body |-> ObjectBody(Undefined, NoDetail,
                            [present |-> TRUE, traceId |-> Undefined,
                             detail |-> [kind |-> "object", traceId |-> Str(IdY),
                                         raw |-> <<>>]])],
       [messageId |-> <<"m","5">>, attr |-> Str(<<>>),
        body |-> [kind |-> "null", traceId |-> Undefined, detail |-> NoDetail,
                  event |-> NoWrapped]] >>

Batches ==
    { SubSeq(RecordCatalogue, a, b) :
        a \in 1..Len(RecordCatalogue),
        b \in 0..Len(RecordCatalogue) } \cap
    UNION { [1..n -> Range(RecordCatalogue)] : n \in 0..MaxRecords }

PendingRecord ==
    [pc |-> "pending", store |-> NoStore, traceId |-> Undefined, read |-> <<>>,
     threw |-> FALSE, calls |-> 0]

InitSqs ==
    [phase |-> "idle", parallel |-> FALSE, extract |-> "default", outer |-> NoStore,
     records |-> <<>>, rec |-> <<>>, failed |-> <<>>, extractThrew |-> FALSE,
     batchItemFailures |-> <<>>]

NoResult == [statusCode |-> 0, hasHeaders |-> FALSE, headers |-> <<>>, body |-> <<>>]

(* the body a handler builds for a status code *)
BodyFor(statusCode) == IF statusCode = 200 THEN <<"o","k">> ELSE <<"e","r","r">>

ContentType == <<"c","o","n","t","e","n","t","-","t","y","p","e">>

Json == <<"j","s","o","n">>

IdOld == <<"o","l","d">>

(* headers a wrapped handler puts on the response it builds: none, an empty  *)
(* object, its own headers, or a trace header of its own                     *)
OwnTraceHeader ==
    <<[key |-> TRACE_ID_HEADER, value |-> Str(IdOld)],
      [key |-> ContentType, value |-> Str(Json)]>>

ResultHeaders ==
    { <<>>,
      <<[key |-> ContentType, value |-> Str(Json)]>>,
      <<[key |-> ContentType, value |-> Str(Json)],
        [key |-> toLowerCase(TRACE_ID_HEADER), value |-> Str(IdOld)]>> }

(* a success response, or an error response the handler built itself *)
HandlerResults ==
    { [statusCode |-> c, hasHeaders |-> FALSE, headers |-> <<>>, body |-> BodyFor(c)] :
         c \in {200, 500} }
        \cup { [statusCode |-> c, hasHeaders |-> TRUE, headers |-> OwnTraceHeader,
                 body |-> BodyFor(c)] : c \in {200, 500} }
        \cup { [statusCode |-> 200, hasHeaders |-> TRUE, headers |-> h, body |-> BodyFor(200)] :
                  h \in ResultHeaders }

(* Scenario B: headers { "x-trace-id": "req-42" } *)
ScenarioBEvent ==
    [hasHeaders |-> TRUE,
     headers |-> <<[key |-> toLowerCase(TRACE_ID_HEADER), value |-> Str(IdReq42)]>>]

(* requests the wrapper is invoked with: one header at most, or Scenario B *)
ApiRequests == { e \in ApiEvents : Len(e.headers) <= 1 } \cup {ScenarioBEvent}

InitApi ==
    [phase |-> "idle", event |-> [hasHeaders |-> FALSE, headers |-> <<>>],
     outer |-> NoStore, traceContext |-> NoStore, store |-> NoStore,
     ambient |-> <<>>, result |-> NoResult, response |-> NoResult,
     handlerCalls |-> 0, firstRead |-> <<>>, thrown |-> "none", err |-> "none"]

(* payloads handed to an event handler, by what the extractor looks at *)
EventPayloads ==
    { ObjectBody(Str(IdX), NoDetail, NoWrapped),
      ObjectBody(Undefined, [kind |-> "object", traceId |-> Str(IdY), raw |-> <<>>], NoWrapped),
      ObjectBody(Undefined, NoDetail,
                 [present |-> TRUE, traceId |-> Str(IdX), detail |-> NoDetail]),
      ObjectBody(Undefined, NoDetail, NoWrapped),
      ObjectBody(Str(IdY), NoDetail,
                 [present |-> TRUE, traceId |-> Str(IdX), detail |-> NoDetail]),
      ObjectBody(Undefined, NoDetail,
                 [present |-> TRUE, traceId |-> Undefined,
                  detail |-> [kind |-> "object", traceId |-> Str(IdAbc), raw |-> <<>>]]),
      [kind |-> "null", traceId |-> Undefined, detail |-> NoDetail, event |-> NoWrapped] }

NoTracedEvent == [traceId |-> Undefined, detail |-> NoDetail]

InitEvt ==
    [phase |-> "idle", payload |-> ObjectBody(Undefined, NoDetail, NoWrapped),
     extract |-> "default", outer |-> NoStore, traceContext |-> NoStore, store |-> NoStore,
     ambient |-> <<>>, handlerCalls |-> 0, firstRead |-> <<>>, thrown |-> "none",
     err |-> "none", value |-> "none", traced |-> NoTracedEvent]

MaxLamExecs == 2

LamExecs == 1..MaxLamExecs

(* a frame is the store reference a continuation captured: the als instance  *)
(* it was bound in and the object (0: none)                                  *)
NoFrame == [gen |-> 0, obj |-> 0]

IdleExec ==
    [status |-> "idle", frames |-> <<>>, given |-> <<>>, read |-> Undefined, op |-> "none"]

(* gen counts the AsyncLocalStorage instances made so far; heap[o] is the    *)
(* traceId property of store object o                                        *)
InitLam ==
    [gen |-> 1, heap |-> <<>>, exec |-> [e \in LamExecs |-> IdleExec], sets |-> 0]

(* the handler's position: idle, awaiting PutEvents, awaiting the SNS publish *)
(* or returned; detail and message are the texts handed to the two clients   *)
InitSnd ==
    [phase |-> "idle", event |-> [hasHeaders |-> FALSE, headers |-> <<>>],
     body |-> Undefined, busName |-> FALSE, topicArn |-> FALSE,
     outer |-> NoStore, traceContext |-> NoStore, store |-> NoStore,
     requestBody |-> JUndefined, sentDetail |-> FALSE, detail |-> <<>>,
     sentMessage |-> FALSE, message |-> <<>>, putFailed |-> FALSE,
     result |-> NoResult, response |-> NoResult]

Init ==
    /\ lam = InitLam
    /\ snd = InitSnd
    /\ envUpper = Undefined
    /\ envLower = Undefined
    /\ segment = NoSegment
    /\ callerStore = NoStore
    /\ lastCall = NoCall
    /\ tasks = InitTasks
    /\ ranLast = 0
    /\ sqs = InitSqs
    /\ api = InitApi
    /\ evt = InitEvt

-----------------------------------------------------------------------------
(* Extractor calls under every state of the backend *)

(* the Lambda runtime sets _X_AMZN_TRACE_ID before an invocation *)
SetProcessEnv ==
    /\ lastCall.fn = "none"
    /\ \E u \in EnvValues, l \in EnvLowerValues :
          /\ <<u, l>> # <<envUpper, envLower>>
          /\ envUpper' = u
          /\ envLower' = l
    /\ UNCHANGED <<segment, extractVars, alsVars, sqs, api, evt, lam, snd>>

(* the X-Ray SDK opens, closes or loses its segment *)
SetSegment ==
    /\ lastCall.fn = "none"
    /\ \E sg \in Segments : sg # segment /\ segment' = sg
    /\ UNCHANGED <<envUpper, envLower, extractVars, alsVars, sqs, api, evt, lam, snd>>

(* the calling execution is inside (or outside) an ambient scope *)
SetCallerStore ==
    /\ lastCall.fn = "none"
    /\ \E st \in CallerStores : st # callerStore /\ callerStore' = st
    /\ UNCHANGED <<backendVars, lastCall, alsVars, sqs, api, evt, lam, snd>>

CallFromAPIGatewayEvent ==
    /\ lastCall.fn = "none"
    /\ \E e \in ApiEvents, g \in GenInputs :
          lastCall' = [NoCall EXCEPT !.fn = "api", !.api = e, !.rt = Runtime, !.g = g,
                                     !.result = fromAPIGatewayEvent(e, Runtime, g)]
    /\ UNCHANGED <<backendVars, callerStore, alsVars, sqs, api, evt, lam, snd>>

CallFromTracedEvent ==
    /\ lastCall.fn = "none"
    /\ \E e \in TracedEvents, g \in GenInputs :
          lastCall' = [NoCall EXCEPT !.fn = "event", !.ev = e, !.rt = Runtime, !.g = g,
                                     !.result = fromTracedEvent(e, Runtime, g)]
    /\ UNCHANGED <<backendVars, callerStore, alsVars, sqs, api, evt, lam, snd>>

(* the caller takes the returned context *)
ReturnFromCall ==
    /\ lastCall.fn # "none"
    /\ lastCall' = NoCall
    /\ UNCHANGED <<backendVars, callerStore, alsVars, sqs, api, evt, lam, snd>>

NextExtract ==
    \/ SetProcessEnv
    \/ SetSegment
    \/ SetCallerStore
    \/ CallFromAPIGatewayEvent
    \/ CallFromTracedEvent
    \/ ReturnFromCall

SpecExtract == Init /\ [][NextExtract]_vars

-----------------------------------------------------------------------------
(* Properties of the extractors (SpecExtract) *)

(* the positions of the keys of a header mapping that name the trace-id header *)
TraceHeaderPositions(event) ==
    IF event.hasHeaders
    THEN { i \in 1..Len(event.headers) :
             toLowerCase(event.headers[i].key) = toLowerCase(TRACE_ID_HEADER) }
    ELSE {}

(* the call carried no explicit trace id *)
NoExplicitId ==
    \/ /\ lastCall.fn = "api"
       /\ \A i \in TraceHeaderPositions(lastCall.api) :
             ~Truthy(lastCall.api.headers[i].value)
    \/ /\ lastCall.fn = "event"
       /\ ~Truthy(lastCall.ev.traceId)
       /\ ~Truthy(detailTraceId(lastCall.ev.detail))

BackendIds(rt) ==
    { v \in { extractRootTraceId(getXRayEnv(rt)),
              extractRootTraceId(getStoreXRayEnv(rt.store)),
              getRootTraceIdFromSegment(getCurrentSegment(rt)) } : Truthy(v) }

(* C3: fromTracedEvent returns a non-empty top-level traceId even when       *)
(* detail.traceId is set, returns detail.traceId when the top-level id is    *)
(* absent, and returns an id of the X-Ray backend only when both are absent. *)
C3_EventFieldPrecedence ==
    lastCall.fn = "event" =>
        /\ Truthy(lastCall.ev.traceId) => lastCall.result.traceId = lastCall.ev.traceId
        /\ (~Truthy(lastCall.ev.traceId) /\ Truthy(detailTraceId(lastCall.ev.detail)))
              => lastCall.result.traceId = detailTraceId(lastCall.ev.detail)
        /\ lastCall.result.traceId \in BackendIds(lastCall.rt) => NoExplicitId

(* {traceId: "X", detail: {traceId: "Y"}} under an active backend gave "X" *)
C3_Witness ==
    /\ lastCall.fn = "event"
    /\ lastCall.ev.traceId = Str(IdX)
    /\ detailTraceId(lastCall.ev.detail) = Str(IdY)
    /\ getXRayTracingAvailability(lastCall.rt).isTracingEnabled
    /\ lastCall.result.traceId = Str(IdX)

(* the environment value an extractor reads its root id from *)
EnvValueRead ==
    IF lastCall.fn = "api" THEN getXRayTracingAvailability(lastCall.rt).envVar
    ELSE getXRayEnv(lastCall.rt)

(* C10: with no explicit id, the returned traceId is the root id of the      *)
(* X-Ray environment value only when that value carries Sampled=1 (and a     *)
(* valid root id).                                                           *)
C10_EnvOnlyWhenSampled ==
    (/\ lastCall.fn \in {"api", "event"}
     /\ NoExplicitId
     /\ Truthy(extractRootTraceId(EnvValueRead))
     /\ lastCall.result.traceId = extractRootTraceId(EnvValueRead))
    => isSampled(EnvValueRead.s)

(* the same statement for fromAPIGatewayEvent alone, which gates and reads   *)
(* one and the same value                                                    *)
ApiEnvOnlyWhenSampled == lastCall.fn = "api" => C10_EnvOnlyWhenSampled

-----------------------------------------------------------------------------
(* TracingContext over AsyncLocalStorage.                                    *)
(*                                                                           *)
(* An execution is a chain of pending continuations, each holding the store  *)
(* that was current when it was suspended: chain[1] belongs to the code that *)
(* started the execution, the last element to the innermost function passed  *)
(* to withTraceContext.  One action runs one continuation from its           *)
(* resumption to its next await, as the event loop does.                     *)

Last(q) == q[Len(q)]

Front(q) == SubSeq(q, 1, Len(q) - 1)

(* Mutation of getStore: the context is kept in a process-wide variable.     *)
getStore_processWide(captured, processWide) == processWide

(* this.als.getStore(): the store captured by the continuation that runs,    *)
(* not the store of whatever ran last                                        *)
getStore(captured, processWide) == captured

(* Mutation of storeAfterRun: als.enterWith(next) in place of als.run.       *)
storeAfterRun_enterWith(prior, next) == next

(* this.als.run(next, fn): once fn has returned its promise, the store that  *)
(* was current before the call is current again                              *)
storeAfterRun(prior, next) == prior

(* Mutation of withTraceContextOutcome: a catch that swallows the error.     *)
withTraceContextOutcome_swallow(fnOutcome) == [kind |-> "resolved", err |-> "none"]

(* return await this.als.run(next, fn): no catch, the outcome is fn's *)
withTraceContextOutcome(fnOutcome) == fnOutcome

(* The context execution t passes to its k-th nested withTraceContext call:  *)
(* an id of its own, "t<t>-<k>", alone as tracedSqsHandler passes it or with *)
(* the fields an extractor adds.                                             *)
ContextOf(t, k) ==
    LET id == Str(<<"t", DigitChars[t + 1], "-", DigitChars[k + 1]>>)
    IN IF k % 2 = 1 THEN TraceIdOnly(id)
       ELSE MakeContext(id, Undefined, Str(EnvSampledA))

(* the scopes open over all executions *)
RECURSIVE OpenScopes(_)
OpenScopes(T) ==
    IF T = {} THEN 0
    ELSE LET t == CHOOSE x \in T : TRUE
         IN Len(tasks[t].given) + OpenScopes(T \ {t})

Errors == {"E1", "E2"}

(* the store under which the code that ran last was suspended: what a       *)
(* process-wide variable would hold                                          *)
RanLastStore ==
    IF ranLast \in TaskIds /\ tasks[ranLast].chain # <<>>
    THEN Last(tasks[ranLast].chain) ELSE NoStore

(* the store the running continuation of task t sees *)
StoreOf(t) == getStore(Last(tasks[t].chain), RanLastStore)

(* the runtime starts an invocation: no store is active *)
StartTask(t) ==
    /\ tasks[t].status = "idle"
    /\ \A u \in TaskIds : u < t => tasks[u].status # "idle"
    /\ tasks' = [tasks EXCEPT ![t] =
                    [IdleTask EXCEPT !.status = "run", !.chain = <<NoStore>>, !.op = "start",
                                     !.read = getTraceId(getStore(NoStore, NoStore))]]
    /\ ranLast' = t
    /\ UNCHANGED <<backendVars, extractVars, sqs, api, evt, lam, snd>>

(* code of task p, inside its outermost scope, starts a second execution     *)
(* without awaiting it: the new execution inherits the store current at its  *)
(* creation                                                                  *)
SpawnTask(p, t) ==
    /\ p < t
    /\ tasks[p].status = "run"
    /\ Len(tasks[p].chain) = 2
    /\ tasks[p].err = "none"
    /\ tasks[t].status = "idle"
    /\ \A u \in TaskIds : u < t => tasks[u].status # "idle"
    /\ LET st == StoreOf(p)
       IN /\ tasks' = [tasks EXCEPT ![t] =
                          [IdleTask EXCEPT !.status = "run", !.chain = <<st>>, !.base = st,
                                           !.op = "start",
                                           !.read = getTraceId(st)]]
          /\ ranLast' = t
    /\ UNCHANGED <<backendVars, extractVars, sqs, api, evt, lam, snd>>

(* await TracingContext.withTraceContext(ctx, fn): fn runs up to its first   *)
(* await under next, its caller is suspended under the store run() leaves    *)
EnterScope(t) ==
    /\ tasks[t].status = "run"
    /\ tasks[t].err = "none"
    /\ OpenScopes(TaskIds) < MaxScopes
    /\ LET prior == StoreOf(t)
           ctx == ContextOf(t, Len(tasks[t].chain))
           next == nextStore(prior, ctx)
       IN /\ tasks' = [tasks EXCEPT ![t] =
                          [@ EXCEPT !.chain = Append(Append(Front(@), storeAfterRun(prior, next)),
                                                     next),
                                    !.given = Append(@, ctx),
                                    !.before = Append(@, prior),
                                    !.read = getTraceId(next),
                                    !.op = "enter"]]
          /\ ranLast' = t
    /\ UNCHANGED <<backendVars, extractVars, sqs, api, evt, lam, snd>>

(* the innermost function resumes after an await and reads the ambient id *)
ResumeTask(t) ==
    /\ tasks[t].status = "run"
    /\ tasks[t].err = "none"
    /\ tasks' = [tasks EXCEPT ![t] = [@ EXCEPT !.read = getTraceId(StoreOf(t)), !.op = "resume"]]
    /\ ranLast' = t
    /\ UNCHANGED <<backendVars, extractVars, sqs, api, evt, lam, snd>>

(* leaving the innermost scope: its continuation is gone, the caller resumes *)
LeaveScope(task, outcome, how) ==
    LET outer == Front(task.chain)
        seen == getStore(Last(outer), RanLastStore)
        out == withTraceContextOutcome(outcome)
    IN [task EXCEPT !.chain = outer,
                    !.given = Front(@),
                    !.before = Front(@),
                    !.prior = Last(task.before),
                    !.read = getTraceId(seen),
                    !.op = how,
                    !.err = IF out.kind = "rejected" THEN out.err ELSE "none"]

(* the function passed to withTraceContext resolves *)
ExitScope(t) ==
    /\ tasks[t].status = "run"
    /\ tasks[t].err = "none"
    /\ Len(tasks[t].chain) > 1
    /\ tasks' = [tasks EXCEPT ![t] =
                    LeaveScope(@, [kind |-> "resolved", err |-> "none"], "exit")]
    /\ ranLast' = t
    /\ UNCHANGED <<backendVars, extractVars, sqs, api, evt, lam, snd>>

(* the function passed to withTraceContext rejects: with a new error, or     *)
(* with the one an inner call gave it and it did not catch                   *)
RejectScope(t, e) ==
    /\ tasks[t].status = "run"
    /\ Len(tasks[t].chain) > 1
    /\ tasks[t].err \in {"none", e}
    /\ tasks' = [tasks EXCEPT ![t] =
                    [LeaveScope(@, [kind |-> "rejected", err |-> e], "reject")
                        EXCEPT !.thrown = e]]
    /\ ranLast' = t
    /\ UNCHANGED <<backendVars, extractVars, sqs, api, evt, lam, snd>>

(* the caller catches the rejection and carries on *)
CatchError(t) ==
    /\ tasks[t].status = "run"
    /\ tasks[t].err # "none"
    /\ tasks' = [tasks EXCEPT ![t] =
                    [@ EXCEPT !.err = "none", !.thrown = "none", !.op = "resume",
                              !.read = getTraceId(StoreOf(t))]]
    /\ ranLast' = t
    /\ UNCHANGED <<backendVars, extractVars, sqs, api, evt, lam, snd>>

(* the execution settles *)
FinishTask(t) ==
    /\ tasks[t].status = "run"
    /\ Len(tasks[t].chain) = 1
    /\ tasks' = [tasks EXCEPT ![t] = [IdleTask EXCEPT !.status = "done", !.op = "done"]]
    /\ ranLast' = t
    /\ UNCHANGED <<backendVars, extractVars, sqs, api, evt, lam, snd>>

NextAls ==
    \/ \E t \in TaskIds : StartTask(t)
    \/ \E p, t \in TaskIds : SpawnTask(p, t)
    \/ \E t \in TaskIds : EnterScope(t)
    \/ \E t \in TaskIds : ResumeTask(t)
    \/ \E t \in TaskIds : ExitScope(t)
    \/ \E t \in TaskIds, e \in Errors : RejectScope(t, e)
    \/ \E t \in TaskIds : CatchError(t)
    \/ \E t \in TaskIds : FinishTask(t)

SpecAls == Init /\ [][NextAls]_vars

-----------------------------------------------------------------------------
(* Properties of the ambient store (SpecAls) *)

InScope(t) == tasks[t].status = "run" /\ Len(tasks[t].given) > 0

(* C4: concurrent executions that each called withTraceContext with their    *)
(* own context read their own traceId from getTraceId() at every step:       *)
(* before the first await and after every resumption, whatever ran between.  *)
C4_AmbientIsolation ==
    \A t \in TaskIds :
        (InScope(t) /\ tasks[t].op \in {"enter", "resume"})
            => tasks[t].read = Last(tasks[t].given).traceId.s

(* two executions are inside scopes of different ids, both have resumed      *)
(* after an await, and the one that did not run last reads its own id        *)
C4_Witness ==
    \E t, u \in TaskIds :
        /\ t # u
        /\ InScope(t) /\ InScope(u)
        /\ tasks[t].op = "resume" /\ tasks[u].op = "resume"
        /\ ranLast = u
        /\ tasks[t].base = NoStore /\ tasks[u].base = NoStore
        /\ tasks[t].read = Last(tasks[t].given).traceId.s
        /\ tasks[t].read # tasks[u].read

(* C5: when an inner withTraceContext call settles, getTraceId() in the      *)
(* outer scope is the outer context's traceId again; when the outermost      *)
(* call of an invocation settles, no context is active and getTraceId() is   *)
(* the empty string.                                                         *)
C5_NestingRestore ==
    \A t \in TaskIds :
        tasks[t].op = "exit" =>
            /\ Len(tasks[t].given) > 0 => tasks[t].read = Last(tasks[t].given).traceId.s
            /\ (Len(tasks[t].given) = 0 /\ tasks[t].base = NoStore) => tasks[t].read = <<>>

(* an inner scope has just settled inside an outer one *)
C5_Witness ==
    \E t \in TaskIds :
        /\ tasks[t].op = "exit"
        /\ Len(tasks[t].given) = 1
        /\ tasks[t].read = ContextOf(t, 1).traceId.s
        /\ tasks[t].read # ContextOf(t, 2).traceId.s

(* C6: when the function passed to withTraceContext rejects, the call        *)
(* rejects with the same error and its caller then sees the store that was   *)
(* active before the call (possibly none).                                   *)
C6_RejectRestores ==
    \A t \in TaskIds :
        tasks[t].op = "reject" =>
            /\ tasks[t].err = tasks[t].thrown
            /\ tasks[t].err # "none"
            /\ StoreOf(t) = tasks[t].prior
            /\ tasks[t].read = getTraceId(tasks[t].prior)

(* a nested call rejected with E2 and the caller is back under its own store *)
C6_Witness ==
    \E t \in TaskIds :
        /\ tasks[t].op = "reject"
        /\ tasks[t].err = "E2"
        /\ tasks[t].prior.active
        /\ tasks[t].read = ContextOf(t, 1).traceId.s

-----------------------------------------------------------------------------
(* tracedSqsHandler *)

(* Mutation of standardTracedEventExtractor: the object under `event` is     *)
(* looked at first.                                                          *)
standardTracedEventExtractor_wrappedFirst(payload) ==
    IF payload.kind = "null" THEN [threw |-> TRUE, traced |-> [traceId |-> Undefined, detail |-> NoDetail]]
    ELSE IF payload.event.present
            /\ (Truthy(payload.event.traceId) \/ Truthy(detailTraceId(payload.event.detail)))
         THEN [threw |-> FALSE,
               traced |-> [traceId |-> payload.event.traceId, detail |-> payload.event.detail]]
    ELSE [threw |-> FALSE, traced |-> [traceId |-> payload.traceId, detail |-> payload.detail]]

(* standardTracedEventExtractor: the payload itself, or the object under     *)
(* `event` when only that one carries an id.  A null payload throws.         *)
standardTracedEventExtractor(payload) ==
    IF payload.kind = "null" THEN [threw |-> TRUE, traced |-> [traceId |-> Undefined, detail |-> NoDetail]]
    ELSE IF Truthy(payload.traceId) \/ Truthy(detailTraceId(payload.detail))
         THEN [threw |-> FALSE, traced |-> [traceId |-> payload.traceId, detail |-> payload.detail]]
    ELSE IF payload.event.present
            /\ (Truthy(payload.event.traceId) \/ Truthy(detailTraceId(payload.event.detail)))
         THEN [threw |-> FALSE,
               traced |-> [traceId |-> payload.event.traceId, detail |-> payload.event.detail]]
    ELSE [threw |-> FALSE, traced |-> [traceId |-> payload.traceId, detail |-> payload.detail]]

(* defaultExtractTraceId: the message attribute, else the parsed body through *)
(* fromTracedEvent, else (any throw) a generated id                           *)
defaultExtractTraceId(record, rt, g) ==
    IF Truthy(record.attr) THEN record.attr
    ELSE IF record.body.kind = "invalid" THEN generate(g)
    ELSE IF standardTracedEventExtractor(record.body).threw THEN generate(g)
    ELSE fromTracedEvent(standardTracedEventExtractor(record.body).traced, rt, g).traceId

(* what a caller-supplied extract may do with record i: return a string,     *)
(* return the empty string, return undefined, or throw                       *)
CustomExtractOutcomes(i) ==
    { [threw |-> FALSE, value |-> Str(<<"c", DigitChars[i + 1]>>)],
      [threw |-> FALSE, value |-> Str(<<>>)],
      [threw |-> FALSE, value |-> Undefined],
      [threw |-> TRUE, value |-> Undefined] }

(* the entropy generate() draws while record i is processed *)
GenFor(i) == [epoch |-> 1710268850, random |-> [j \in 1..RandomByteCount |-> (i * 37 + j) % 256]]

(* const traceId = extract(record) ?? TraceId.generate() *)
derivedTraceId(extracted, g) == Coalesce(extracted, generate(g))

(* the store of the code that ran last in this invocation *)
SqsRanLastStore ==
    IF ranLast \in DOMAIN sqs.rec /\ sqs.rec[ranLast].pc = "awaiting"
    THEN sqs.rec[ranLast].store ELSE sqs.outer

SqsRuntime == [envUpper |-> envUpper, envLower |-> envLower, segment |-> segment,
               store |-> sqs.outer]

(* processRecord(record) up to its first suspension: the id is derived, the  *)
(* handler starts inside withTraceContext({ traceId }) and reads the ambient *)
(* id; a throwing extract rejects processRecord before any scope is entered  *)
startRecord(q, i, ex) ==
    IF ex.threw
    THEN [q EXCEPT !.rec[i].pc = "rejected", !.extractThrew = TRUE]
    ELSE LET traceId == derivedTraceId(ex.value, GenFor(i))
             next == nextStore(getStore(q.outer, q.outer), TraceIdOnly(traceId))
         IN [q EXCEPT !.rec[i] = [pc |-> "awaiting", store |-> next, traceId |-> traceId,
                                  read |-> getTraceId(next), threw |-> FALSE,
                                  calls |-> q.rec[i].calls + 1]]

(* the outcomes extract can have on record i *)
ExtractOutcomes(q, i, rt) ==
    IF q.extract = "default"
    THEN { [threw |-> FALSE, value |-> defaultExtractTraceId(q.records[i], rt, GenFor(i))] }
    ELSE CustomExtractOutcomes(i)

(* Promise.all(event.Records.map(processRecord)): every processRecord runs   *)
(* to its first suspension, in batch order                                   *)
RECURSIVE startAll(_, _, _)
startAll(q, i, exs) ==
    IF i > Len(q.records) THEN q ELSE startAll(startRecord(q, i, exs[i]), i + 1, exs)

OuterStores == {NoStore, MakeContext(Str(IdReq42), Undefined, Str(EnvSampledA))}

(* the runtime invokes the wrapped handler with a batch *)
SqsInvoke ==
    /\ sqs.phase = "idle"
    /\ \E batch \in Batches, par \in BOOLEAN, extract \in {"default", "custom"},
          outer \in OuterStores :
          /\ extract = "custom" => batch = SubSeq(RecordCatalogue, 1, Len(batch))
          /\ LET q == [InitSqs EXCEPT !.phase = "running", !.parallel = par,
                                      !.extract = extract, !.outer = outer,
                                      !.records = batch,
                                      !.rec = [i \in 1..Len(batch) |-> PendingRecord]]
                 rt == [envUpper |-> envUpper, envLower |-> envLower, segment |-> segment,
                        store |-> outer]
             IN IF par
                THEN \E exs \in [1..Len(batch) -> UNION { ExtractOutcomes(q, i, rt) : i \in 1..Len(batch) }] :
                        /\ \A i \in 1..Len(batch) : exs[i] \in ExtractOutcomes(q, i, rt)
                        /\ sqs' = startAll(q, 1, exs)
                ELSE sqs' = q
    /\ ranLast' = 0
    /\ UNCHANGED <<backendVars, extractVars, tasks, api, evt, lam, snd>>

Settled(r) == r.pc \in {"done", "failed", "rejected"}

(* Mutation of loopReaches: the loop goes on only after a success. *)
loopReaches_stopAtFailure(q, i) == \A j \in 1..(i - 1) : q.rec[j].pc = "done"

(* Mutation of loopReaches: processRecord is called without await. *)
loopReaches_noAwait(q, i) == \A j \in 1..(i - 1) : q.rec[j].pc # "pending"

(* for (const record of event.Records) { await processRecord(record) }: the  *)
(* loop reaches record i once every earlier processRecord has fulfilled      *)
loopReaches(q, i) == \A j \in 1..(i - 1) : q.rec[j].pc \in {"done", "failed"}

(* sequential mode: for (const record of event.Records) await processRecord  *)
SqsStartNext(i) ==
    /\ sqs.phase = "running"
    /\ ~sqs.parallel
    /\ i \in DOMAIN sqs.rec
    /\ sqs.rec[i].pc = "pending"
    /\ loopReaches(sqs, i)
    /\ \E ex \in ExtractOutcomes(sqs, i, SqsRuntime) : sqs' = startRecord(sqs, i, ex)
    /\ ranLast' = i
    /\ UNCHANGED <<backendVars, extractVars, tasks, api, evt, lam, snd>>

(* the handler of record i resumes after an await, reads the ambient id and  *)
(* awaits again *)
SqsHandlerAwaits(i) ==
    /\ sqs.phase \in {"running", "rejected"}
    /\ i \in DOMAIN sqs.rec
    /\ sqs.rec[i].pc = "awaiting"
    /\ sqs' = [sqs EXCEPT !.rec[i].read =
                              getTraceId(getStore(sqs.rec[i].store, SqsRanLastStore))]
    /\ ranLast' = i
    /\ UNCHANGED <<backendVars, extractVars, tasks, api, evt, lam, snd>>

(* the handler of record i resumes and returns *)
SqsHandlerReturns(i) ==
    /\ sqs.phase \in {"running", "rejected"}
    /\ i \in DOMAIN sqs.rec
    /\ sqs.rec[i].pc = "awaiting"
    /\ sqs' = [sqs EXCEPT !.rec[i].read =
                              getTraceId(getStore(sqs.rec[i].store, SqsRanLastStore)),
                          !.rec[i].pc = "done"]
    /\ ranLast' = 0
    /\ UNCHANGED <<backendVars, extractVars, tasks, api, evt, lam, snd>>

(* the handler of record i resumes and throws: withTraceContext rejects,     *)
(* processRecord catches and pushes the messageId                            *)
SqsHandlerThrows(i) ==
    /\ sqs.phase \in {"running", "rejected"}
    /\ i \in DOMAIN sqs.rec
    /\ sqs.rec[i].pc = "awaiting"
    /\ LET out == withTraceContextOutcome([kind |-> "rejected", err |-> "E1"])
       IN sqs' = [sqs EXCEPT !.rec[i].read =
                                 getTraceId(getStore(sqs.rec[i].store, SqsRanLastStore)),
                             !.rec[i].threw = TRUE,
                             !.rec[i].pc = IF out.kind = "rejected" THEN "failed" ELSE "done",
                             !.failed = IF out.kind = "rejected"
                                        THEN Append(@, sqs.records[i].messageId) ELSE @]
    /\ ranLast' = 0
    /\ UNCHANGED <<backendVars, extractVars, tasks, api, evt, lam, snd>>

(* a processRecord promise rejected: the for loop, or Promise.all, rejects   *)
(* the invocation                                                            *)
SqsReject ==
    /\ sqs.phase = "running"
    /\ \E i \in DOMAIN sqs.rec : sqs.rec[i].pc = "rejected"
    /\ sqs' = [sqs EXCEPT !.phase = "rejected"]
    /\ ranLast' = 0
    /\ UNCHANGED <<backendVars, extractVars, tasks, api, evt, lam, snd>>

(* every processRecord promise fulfilled: return { batchItemFailures } *)
SqsResolve ==
    /\ sqs.phase = "running"
    /\ \A i \in DOMAIN sqs.rec : sqs.rec[i].pc \in {"done", "failed"}
    /\ sqs' = [sqs EXCEPT !.phase = "resolved",
                          !.batchItemFailures =
                              [k \in 1..Len(sqs.failed) |-> [itemIdentifier |-> sqs.failed[k]]]]
    /\ ranLast' = 0
    /\ UNCHANGED <<backendVars, extractVars, tasks, api, evt, lam, snd>>

NextSqs ==
    \/ SqsInvoke
    \/ \E i \in 1..Len(RecordCatalogue) : SqsStartNext(i)
    \/ \E i \in 1..Len(RecordCatalogue) : SqsHandlerAwaits(i)
    \/ \E i \in 1..Len(RecordCatalogue) : SqsHandlerReturns(i)
    \/ \E i \in 1..Len(RecordCatalogue) : SqsHandlerThrows(i)
    \/ SqsReject
    \/ SqsResolve

SpecSqs == Init /\ [][NextSqs]_vars

-----------------------------------------------------------------------------
(* Batch properties *)

FailureIds == { sqs.batchItemFailures[k].itemIdentifier : k \in DOMAIN sqs.batchItemFailures }

ThrewIds == { sqs.records[i].messageId : i \in { j \in DOMAIN sqs.rec : sqs.rec[j].threw } }

ExactFailureList ==
    /\ FailureIds = ThrewIds
    /\ Len(sqs.batchItemFailures) = Cardinality(ThrewIds)
    /\ \A i \in DOMAIN sqs.rec : ~sqs.rec[i].threw => sqs.rec[i].pc = "done"

(* C7: for every batch and every set of records whose handler throws, the    *)
(* invocation never rejects, and when it has resolved batchItemFailures      *)
(* lists exactly the messageIds of the records whose handler threw while     *)
(* the handler of every other record ran to completion.                      *)
C7_BatchPartialFailure ==
    /\ sqs.phase # "rejected"
    /\ sqs.phase = "resolved" => ExactFailureList

(* the same statement for the invocations in which no extract call threw *)
BatchPartialFailureWhenExtractReturns ==
    ~sqs.extractThrew =>
        /\ sqs.phase # "rejected"
        /\ sqs.phase = "resolved" => ExactFailureList

(* three records, only the second one's handler threw, invocation resolved *)
BatchPartialFailureReached ==
    /\ sqs.phase = "resolved"
    /\ Len(sqs.records) = 3
    /\ sqs.rec[2].threw /\ ~sqs.rec[1].threw /\ ~sqs.rec[3].threw
    /\ Len(sqs.batchItemFailures) = 1

Started(r) == r.pc \in {"awaiting", "done", "failed"}

(* C8: in sequential and in parallel mode, at every step of a record         *)
(* handler and under every interleaving, the value the handler read from     *)
(* getTraceId() is the id derived for its own record, and not the id of a    *)
(* record of the batch that was given a different id.                        *)
C8_RecordIsolation ==
    \A i \in DOMAIN sqs.rec :
        Started(sqs.rec[i]) =>
            /\ sqs.rec[i].read = OrElse(sqs.rec[i].traceId, Str(<<>>)).s
            /\ \A j \in DOMAIN sqs.rec :
                  (Started(sqs.rec[j]) /\ sqs.rec[j].traceId # sqs.rec[i].traceId
                     /\ Truthy(sqs.rec[j].traceId))
                  => sqs.rec[i].read # sqs.rec[j].traceId.s

(* parallel mode: a later record's handler has already run and settled, and  *)
(* an earlier record's handler has resumed after it and read its own id      *)
C8_Witness ==
    /\ sqs.parallel
    /\ \E i, j \in DOMAIN sqs.rec :
          /\ i < j
          /\ sqs.rec[i].pc = "awaiting" /\ ranLast = i
          /\ sqs.rec[j].pc \in {"done", "failed"}
          /\ Truthy(sqs.rec[i].traceId) /\ Truthy(sqs.rec[j].traceId)
          /\ sqs.rec[i].traceId # sqs.rec[j].traceId
          /\ sqs.rec[i].read = sqs.rec[i].traceId.s

-----------------------------------------------------------------------------
(* tracedApiGatewayHandler *)

(* { ...a, ...b } on string-keyed objects: keys of a keep their position and *)
(* take b's value, new keys of b follow                                      *)
spreadHeaders(a, b) ==
    LET over(e) == IF \E j \in DOMAIN b : b[j].key = e.key
                   THEN b[CHOOSE j \in DOMAIN b : b[j].key = e.key]
                   ELSE e
        fresh(e) == \A i \in DOMAIN a : a[i].key # e.key
    IN [i \in DOMAIN a |-> over(a[i])] \o SelectSeq(b, fresh)

(* Mutation of wrapResponse: the headers are the trace header alone. *)
wrapResponse_dropsHeaders(result, traceContext, store) ==
    [result EXCEPT !.hasHeaders = TRUE,
                   !.headers = toHttpHeaders(traceContext.traceId, store)]

(* Mutation of wrapResponse: the handler's headers are spread last. *)
wrapResponse_handlerWins(result, traceContext, store) ==
    [result EXCEPT !.hasHeaders = TRUE,
                   !.headers = spreadHeaders(toHttpHeaders(traceContext.traceId, store),
                                             IF result.hasHeaders THEN result.headers
                                             ELSE <<>>)]

(* { ...result, headers: { ...(result.headers ?? {}),                        *)
(*                         ...TraceId.toHttpHeaders(traceContext.traceId) } } *)
wrapResponse(result, traceContext, store) ==
    [result EXCEPT !.hasHeaders = TRUE,
                   !.headers = spreadHeaders(IF result.hasHeaders THEN result.headers
                                             ELSE <<>>,
                                             toHttpHeaders(traceContext.traceId, store))]

(* the runtime invokes the wrapped handler: the context is derived from the  *)
(* event, the handler starts inside withTraceContext and reads the ambient id *)
ApiInvoke ==
    /\ api.phase = "idle"
    /\ \E event \in ApiRequests, outer \in OuterStores, g \in GenInputs :
          LET rt == [envUpper |-> envUpper, envLower |-> envLower, segment |-> segment,
                     store |-> outer]
              traceContext == fromAPIGatewayEvent(event, rt, g)
              next == nextStore(getStore(outer, outer), traceContext)
          IN api' = [InitApi EXCEPT !.phase = "running", !.event = event, !.outer = outer,
                                    !.traceContext = traceContext, !.store = next,
                                    !.ambient = getTraceId(next),
                                    !.handlerCalls = 1, !.firstRead = getTraceId(next)]
    /\ UNCHANGED <<backendVars, extractVars, alsVars, sqs, evt, lam, snd>>

(* the handler resumes after an await and reads the ambient id again *)
ApiHandlerAwaits ==
    /\ api.phase = "running"
    /\ api' = [api EXCEPT !.ambient = getTraceId(getStore(api.store, api.outer))]
    /\ UNCHANGED <<backendVars, extractVars, alsVars, sqs, evt, lam, snd>>

(* the handler returns a response; the wrapper, resumed in the caller's      *)
(* store, adds the trace header and returns                                  *)
ApiHandlerReturns ==
    /\ api.phase = "running"
    /\ \E result \in HandlerResults :
          LET out == withTraceContextOutcome([kind |-> "resolved", err |-> "none"])
          IN api' = [api EXCEPT !.phase = IF out.kind = "resolved" THEN "returned" ELSE "rejected",
                                !.ambient = getTraceId(getStore(api.store, api.outer)),
                                !.result = result,
                                !.response = wrapResponse(result, api.traceContext,
                                                          storeAfterRun(api.outer, api.store))]
    /\ UNCHANGED <<backendVars, extractVars, alsVars, sqs, evt, lam, snd>>

(* the handler throws: withTraceContext rejects and so does the wrapper *)
ApiHandlerThrows ==
    /\ api.phase = "running"
    /\ \E e \in Errors :
          LET out == withTraceContextOutcome([kind |-> "rejected", err |-> e])
          IN api' = [api EXCEPT !.phase = IF out.kind = "rejected" THEN "rejected" ELSE "returned",
                                !.ambient = getTraceId(getStore(api.store, api.outer)),
                                !.thrown = e, !.err = out.err]
    /\ UNCHANGED <<backendVars, extractVars, alsVars, sqs, evt, lam, snd>>

(* the invocation is over; the container takes the next request *)
ApiNextInvocation ==
    /\ api.phase \in {"returned", "rejected"}
    /\ api' = InitApi
    /\ UNCHANGED <<backendVars, extractVars, alsVars, sqs, evt, lam, snd>>

NextApi ==
    \/ (api.phase = "idle" /\ SetProcessEnv)
    \/ (api.phase = "idle" /\ SetSegment)
    \/ ApiInvoke
    \/ ApiHandlerAwaits
    \/ ApiHandlerReturns
    \/ ApiHandlerThrows
    \/ ApiNextInvocation

SpecApi == Init /\ [][NextApi]_vars

-----------------------------------------------------------------------------
(* Response header properties *)

TraceHeaderValues(headers) ==
    { headers[i].value : i \in { j \in DOMAIN headers : headers[j].key = TRACE_ID_HEADER } }

(* C9: whenever the wrapped handler returned a response, with a success or   *)
(* an error status, the response of the wrapper has an X-Trace-Id header     *)
(* whose value is the traceId that was ambient while the handler ran; for a  *)
(* request with headers { x-trace-id: "req-42" } that value is "req-42".     *)
C9_ResponseTraceHeader ==
    api.phase = "returned" =>
        /\ api.response.hasHeaders
        /\ TraceHeaderValues(api.response.headers) = {Str(api.ambient)}
        /\ api.ambient # <<>>
        /\ api.response.statusCode = api.result.statusCode
        /\ api.event = ScenarioBEvent =>
              TraceHeaderValues(api.response.headers) = {Str(IdReq42)}

(* Scenario B answered with an error response that carried a trace header of *)
(* the handler's own                                                         *)
C9_Witness ==
    /\ api.phase = "returned"
    /\ api.event = ScenarioBEvent
    /\ api.result.statusCode = 500
    /\ api.result.hasHeaders
    /\ TraceHeaderValues(api.result.headers) = {Str(IdOld)}
    /\ TraceHeaderValues(api.response.headers) = {Str(IdReq42)}

-----------------------------------------------------------------------------
(* TraceId of the tracing-test lambda: fromEventBridgeEvent *)

(* asRecord: the value when it is an object, else {} *)
asRecord(value) == IF value.t = "object" THEN value ELSE JObject(<<>>)

(* Mutation of parseDetail: JSON.parse outside any try. *)
parseDetail_noCatch(detail) ==
    IF detail.t = "string"
    THEN LET parsed == JSONparse(detail.s)
         IN [threw |-> ~parsed.ok, value |-> asRecord(parsed.value)]
    ELSE [threw |-> FALSE, value |-> asRecord(detail)]

(* parseDetail: a string is parsed, a SyntaxError is caught and gives {} *)
parseDetail(detail) ==
    IF detail.t = "string"
    THEN LET parsed == JSONparse(detail.s)
         IN [threw |-> FALSE,
             value |-> IF parsed.ok THEN asRecord(parsed.value) ELSE JObject(<<>>)]
    ELSE [threw |-> FALSE, value |-> asRecord(detail)]

normalizeTraceId(candidate) ==
    IF candidate.t = "string" THEN Str(candidate.s)
    ELSE IF candidate.t = "number" THEN Str(numberDigits(candidate.n))
    ELSE Undefined

(* process.env[XRAY_ENV_VAR] ?? process.env[XRAY_ENV_VAR.toLowerCase()] *)
lambdaGetRootTraceIdFromEnvironment(rt) ==
    extractRootTraceId(Coalesce(rt.envUpper, rt.envLower))

KeyTraceId == <<"t","r","a","c","e","I","d">>

KeyTraceHeader == <<"t","r","a","c","e","H","e","a","d","e","r">>

KeyDetail == <<"d","e","t","a","i","l">>

KeyMetadata == <<"m","e","t","a","d","a","t","a">>

KeyEvent == <<"e","v","e","n","t">>

KeyId == <<"i","d">>

(* getStepFunctionExecutionId: normalizeTraceId(asRecord(source.event).id) *)
(* Mutation of getStepFunctionExecutionId: the id is read at the top level. *)
getStepFunctionExecutionId_topLevel(source) == normalizeTraceId(jsonGet(source, KeyId))

getStepFunctionExecutionId(source) ==
    normalizeTraceId(jsonGet(asRecord(jsonGet(source, KeyEvent)), KeyId))

Crockford ==
    <<"0","1","2","3","4","5","6","7","8","9","A","B","C","D","E","F","G","H","J","K",
      "M","N","P","Q","R","S","T","V","W","X","Y","Z">>

UlidTimeLen == 10

RECURSIVE encodeTime(_, _)
encodeTime(now, len) ==
    IF len = 0 THEN <<>>
    ELSE encodeTime(now \div Len(Crockford), len - 1) \o <<Crockford[(now % Len(Crockford)) + 1]>>

(* ulid(): ten characters of time, then one character for each random draw *)
ulid(g) ==
    Str(encodeTime(g.epoch, UlidTimeLen)
            \o [i \in DOMAIN g.random |-> Crockford[(g.random[i] % Len(Crockford)) + 1]])

(* the first candidate, in order, that yields a non-empty string *)
RECURSIVE firstTruthy(_)
firstTruthy(candidates) ==
    IF candidates = <<>> THEN Undefined
    ELSE IF Truthy(Head(candidates)) THEN Head(candidates)
    ELSE firstTruthy(Tail(candidates))

(* fromEventBridgeEvent: explicit ids, trace headers, X-Ray env, segment,    *)
(* the Step Functions execution id, else a new id                            *)
fromEventBridgeEvent(event, rt, g) ==
    LET eventRecord == asRecord(event)
        parsed == parseDetail(jsonGet(eventRecord, KeyDetail))
        detail == parsed.value
        metadata == asRecord(jsonGet(detail, KeyMetadata))
        explicit == firstTruthy(<<normalizeTraceId(jsonGet(eventRecord, KeyTraceId)),
                                  normalizeTraceId(jsonGet(detail, KeyTraceId)),
                                  normalizeTraceId(jsonGet(metadata, KeyTraceId))>>)
        fromHeader ==
            firstTruthy(<<extractRootTraceId(normalizeTraceId(jsonGet(eventRecord, KeyTraceHeader))),
                          extractRootTraceId(normalizeTraceId(jsonGet(detail, KeyTraceHeader))),
                          extractRootTraceId(normalizeTraceId(jsonGet(metadata, KeyTraceHeader)))>>)
        awsTraceFromEnv == lambdaGetRootTraceIdFromEnvironment(rt)
        awsTraceFromSegment == getRootTraceIdFromSegment(getCurrentSegment(rt))
        stepFunctionExecutionId == getStepFunctionExecutionId(eventRecord)
    IN IF parsed.threw THEN [threw |-> TRUE, traceId |-> Undefined, source |-> "none"]
       ELSE IF Truthy(explicit) THEN [threw |-> FALSE, traceId |-> explicit, source |-> "explicit"]
       ELSE IF Truthy(fromHeader)
            THEN [threw |-> FALSE, traceId |-> fromHeader, source |-> "traceHeader"]
       ELSE IF Truthy(awsTraceFromEnv)
            THEN [threw |-> FALSE, traceId |-> awsTraceFromEnv, source |-> "env"]
       ELSE IF Truthy(awsTraceFromSegment)
            THEN [threw |-> FALSE, traceId |-> awsTraceFromSegment, source |-> "segment"]
       ELSE IF Truthy(stepFunctionExecutionId)
            THEN [threw |-> FALSE, traceId |-> stepFunctionExecutionId, source |-> "execution"]
       ELSE [threw |-> FALSE, traceId |-> ulid(g), source |-> "generated"]

(* an object literal: the members whose value is not undefined *)
ObjectOf(members) == JObject(SelectSeq(members, LAMBDA m : m.value.t # "undefined"))

ExecutionId == <<"e","x","e","c","-","1">>

(* '{"metadata":{"traceId":"y"}}' *)
MetadataDetailText ==
    JSONstringify(ObjectOf(<<[key |-> KeyMetadata,
                              value |-> ObjectOf(<<[key |-> KeyTraceId,
                                                    value |-> JString(IdY)]>>)]>>))

EbTraceIds == {JUndefined, JString(<<>>), JString(IdX)}

EbDetails ==
    {JUndefined, JString(RawJsonText), JString(EncodedDetailText),
     JString(MetadataDetailText), JString(NullLit),
     ObjectOf(<<[key |-> KeyTraceId, value |-> JNumber(42)]>>)}

EbTraceHeaders == {JUndefined, JString(EnvUnsampledB)}

EbWrapped ==
    {JUndefined, ObjectOf(<<[key |-> KeyId, value |-> JString(ExecutionId)]>>),
     ObjectOf(<<[key |-> KeyId, value |-> JString(<<>>)]>>)}

EbEvents ==
    { ObjectOf(<<[key |-> KeyTraceId, value |-> t], [key |-> KeyDetail, value |-> d],
                 [key |-> KeyTraceHeader, value |-> h], [key |-> KeyEvent, value |-> w]>>) :
        t \in EbTraceIds, d \in EbDetails, h \in EbTraceHeaders, w \in EbWrapped }

CallFromEventBridgeEvent ==
    /\ lastCall.fn = "none"
    /\ \E e \in EbEvents, g \in GenInputs :
          LET r == fromEventBridgeEvent(e, Runtime, g)
          IN lastCall' = [NoCall EXCEPT !.fn = "eventbridge", !.eb = e, !.rt = Runtime,
                                        !.g = g, !.result = r, !.threw = r.threw]
    /\ UNCHANGED <<backendVars, callerStore, alsVars, sqs, api, evt, lam, snd>>

NextEventSources ==
    \/ SetProcessEnv
    \/ SetSegment
    \/ SetCallerStore
    \/ CallFromTracedEvent
    \/ CallFromEventBridgeEvent
    \/ ReturnFromCall

SpecEventSources == Init /\ [][NextEventSources]_vars

-----------------------------------------------------------------------------
(* Properties of the event extractors on a detail that is a string *)

IsJsonText(text) == JSONparse(text).ok

WithoutDetail(event) == JObject(SelectSeq(event.fields, LAMBDA m : m.key # KeyDetail))

MalformedDetailInTracedEvent ==
    /\ lastCall.fn = "event"
    /\ lastCall.ev.detail.kind = "string"
    /\ ~IsJsonText(lastCall.ev.detail.raw)

MalformedDetailInEventBridgeEvent ==
    /\ lastCall.fn = "eventbridge"
    /\ jsonGet(lastCall.eb, KeyDetail).t = "string"
    /\ ~IsJsonText(jsonGet(lastCall.eb, KeyDetail).s)

(* C11: on an event whose detail is a string that is not valid JSON,         *)
(* fromTracedEvent and fromEventBridgeEvent do not throw and return what     *)
(* they return for the same event without the detail: the detail carries no  *)
(* traceId and the cascade goes on to the later candidates or to generation. *)
C11_MalformedDetailAbsorbed ==
    /\ MalformedDetailInTracedEvent =>
          /\ ~lastCall.threw
          /\ Truthy(lastCall.result.traceId)
          /\ lastCall.result =
                fromTracedEvent([lastCall.ev EXCEPT !.detail = NoDetail], lastCall.rt, lastCall.g)
    /\ MalformedDetailInEventBridgeEvent =>
          /\ ~lastCall.threw
          /\ Truthy(lastCall.result.traceId)
          /\ lastCall.result =
                fromEventBridgeEvent(WithoutDetail(lastCall.eb), lastCall.rt, lastCall.g)

(* fromEventBridgeEvent got a malformed detail and went on to the segment *)
C11_Witness ==
    /\ MalformedDetailInEventBridgeEvent
    /\ ~lastCall.threw
    /\ lastCall.result.source = "segment"
    /\ lastCall.result.traceId = extractRootTraceId(lastCall.rt.segment.trace_id)

(* the traceId a detail string holds once decoded, undefined when it holds  *)
(* none or is not JSON                                                       *)
EncodedTraceId(text) ==
    IF IsJsonText(text) THEN normalizeTraceId(jsonGet(JSONparse(text).value, KeyTraceId))
    ELSE Undefined

(* C12: on an event with no top-level traceId whose detail is a JSON-encoded *)
(* string holding a traceId ('{"traceId":"evt-7"}'), fromTracedEvent returns *)
(* that traceId ("evt-7").                                                   *)
C12_EncodedDetailDecoded ==
    (/\ lastCall.fn = "event"
     /\ ~Truthy(lastCall.ev.traceId)
     /\ lastCall.ev.detail.kind = "string"
     /\ Truthy(EncodedTraceId(lastCall.ev.detail.raw)))
    => lastCall.result.traceId = EncodedTraceId(lastCall.ev.detail.raw)

(* fromEventBridgeEvent does decode such a detail *)
EventBridgeDecodesDetail ==
    (/\ lastCall.fn = "eventbridge"
     /\ ~Truthy(normalizeTraceId(jsonGet(lastCall.eb, KeyTraceId)))
     /\ jsonGet(lastCall.eb, KeyDetail).t = "string"
     /\ Truthy(EncodedTraceId(jsonGet(lastCall.eb, KeyDetail).s)))
    => lastCall.result.traceId = EncodedTraceId(jsonGet(lastCall.eb, KeyDetail).s)

-----------------------------------------------------------------------------
(* EventbusClient.sendEvent and the next hop *)

(* normalizeEventDetail: a JSON object string becomes the parsed object, a   *)
(* JSON primitive or a non-JSON string becomes { detail: value }, an object  *)
(* is kept                                                                   *)
normalizeEventDetail(detail) ==
    IF detail.t = "string"
    THEN LET parsed == JSONparse(detail.s)
         IN IF ~parsed.ok THEN JObject(<<[key |-> KeyDetail, value |-> detail]>>)
            ELSE IF parsed.value.t = "object" THEN parsed.value
            ELSE JObject(<<[key |-> KeyDetail, value |-> parsed.value]>>)
    ELSE detail

(* { traceId: currentTraceId, ...detailObj } *)
spreadUnder(obj, key, value) ==
    IF \E i \in DOMAIN obj.fields : obj.fields[i].key = key THEN obj
    ELSE JObject(<<[key |-> key, value |-> value]>> \o obj.fields)

(* Mutation of sendEvent: the given detail is spread over the ambient id. *)
sendEvent_givenWins(detail, store) ==
    LET currentTraceId == getTraceId(store)
        detailObj == normalizeEventDetail(detail)
    IN JSONstringify(IF currentTraceId # <<>>
                     THEN spreadUnder(detailObj, KeyTraceId, JString(currentTraceId))
                     ELSE detailObj)

(* sendEvent: the Detail text of the entry handed to PutEvents *)
sendEvent(detail, store) ==
    LET currentTraceId == getTraceId(store)
        detailObj == normalizeEventDetail(detail)
    IN JSONstringify(IF currentTraceId # <<>>
                     THEN jsonSet(detailObj, KeyTraceId, JString(currentTraceId))
                     ELSE detailObj)

(* the event a target receives: detail is the Detail text as an object; ids  *)
(* in it are strings                                                         *)
deliveredEvent(detailText) ==
    LET detail == JSONparse(detailText).value
        traceId == jsonGet(detail, KeyTraceId)
    IN [traceId |-> Undefined,
        detail |-> [kind |-> "object",
                    traceId |-> IF traceId.t = "string" THEN Str(traceId.s) ELSE Undefined,
                    raw |-> <<>>]]

IdQuoted == <<"a","\"","b","\\","c">>

SenderStores ==
    {NoStore, TraceIdOnly(Str(IdAbc)), TraceIdOnly(Str(IdQuoted)),
     MakeContext(Str(IdReq42), Undefined, Str(EnvSampledA))}

SentDetails ==
    {JObject(<<>>),
     ObjectOf(<<[key |-> KeyTraceId, value |-> JString(IdX)]>>),
     ObjectOf(<<[key |-> KeyId, value |-> JString(ExecutionId)],
                [key |-> KeyTraceId, value |-> JString(IdX)],
                [key |-> KeyDetail,
                 value |-> ObjectOf(<<[key |-> KeyTraceId, value |-> JString(IdY)]>>)]>>),
     JString(RawJsonText), JString(EncodedDetailText), JString(NullLit),
     JString(<<"4","2">>)}

(* a lambda inside (or outside) an ambient scope sends an event *)
SendEvent ==
    /\ lastCall.fn = "none"
    /\ \E detail \in SentDetails, store \in SenderStores :
          lastCall' = [NoCall EXCEPT !.fn = "sendEvent", !.eb = detail, !.sender = store,
                                     !.sent = sendEvent(detail, store)]
    /\ UNCHANGED <<backendVars, callerStore, alsVars, sqs, api, evt, lam, snd>>

(* the bus delivers the event to a target, which derives its trace context   *)
(* under its own backend state                                               *)
DeliverEvent ==
    /\ lastCall.fn = "sendEvent"
    /\ \E u \in EnvValues, sg \in Segments, st \in CallerStores, g \in GenInputs :
          LET rt == [envUpper |-> u, envLower |-> Undefined, segment |-> sg, store |-> st]
              ev == deliveredEvent(lastCall.sent)
          IN lastCall' = [lastCall EXCEPT !.fn = "delivered", !.ev = ev, !.rt = rt, !.g = g,
                                          !.result = fromTracedEvent(ev, rt, g)]
    /\ UNCHANGED <<backendVars, callerStore, alsVars, sqs, api, evt, lam, snd>>

NextEventbus ==
    \/ SendEvent
    \/ DeliverEvent
    \/ ReturnFromCall

SpecEventbus == Init /\ [][NextEventbus]_vars

(* C13: when sendEvent is called inside an ambient scope with traceId T, the *)
(* Detail it sends carries traceId = T, also when the given detail held     *)
(* another traceId, and fromTracedEvent on the delivered event returns T.   *)
C13_HopRoundTrip ==
    (lastCall.fn \in {"sendEvent", "delivered"} /\ getTraceId(lastCall.sender) # <<>>)
    => /\ IsJsonText(lastCall.sent)
       /\ jsonGet(JSONparse(lastCall.sent).value, KeyTraceId)
             = JString(getTraceId(lastCall.sender))
       /\ lastCall.fn = "delivered" =>
             lastCall.result.traceId = Str(getTraceId(lastCall.sender))

(* a detail that held another traceId was sent from a scope whose id needs   *)
(* escaping, and the target, with a sampled X-Ray root of its own, got T     *)
C13_Witness ==
    /\ lastCall.fn = "delivered"
    /\ getTraceId(lastCall.sender) = IdQuoted
    /\ jsonGet(normalizeEventDetail(lastCall.eb), KeyTraceId) = JString(IdX)
    /\ lastCall.rt.envUpper = Str(EnvSampledA)
    /\ lastCall.result.traceId = Str(IdQuoted)

-----------------------------------------------------------------------------
(* tracedEventHandler *)

(* what a caller-supplied extract may do: return a TracedEvent, or throw *)
CustomEventExtractOutcomes ==
    { [threw |-> FALSE, traced |-> [traceId |-> Str(IdAbc), detail |-> NoDetail]],
      [threw |-> FALSE, traced |-> NoTracedEvent],
      [threw |-> TRUE, traced |-> NoTracedEvent] }

(* options?.extract ?? standardTracedEventExtractor, applied to the payload *)
EventExtractOutcomes(extract, payload) ==
    IF extract = "default" THEN {standardTracedEventExtractor(payload)}
    ELSE CustomEventExtractOutcomes

HandlerValues == {"v1", "v2"}

(* the runtime invokes the wrapped handler: the extractor picks the traced   *)
(* event, the context is derived, the handler starts inside                  *)
(* withTraceContext and reads the ambient id; a throwing extractor rejects   *)
(* the invocation                                                            *)
EvtInvoke ==
    /\ evt.phase = "idle"
    /\ \E payload \in EventPayloads, extract \in {"default", "custom"},
          outer \in OuterStores, g \in GenInputs :
          \E ex \in EventExtractOutcomes(extract, payload) :
             LET rt == [envUpper |-> envUpper, envLower |-> envLower, segment |-> segment,
                        store |-> outer]
                 ctx == fromTracedEvent(ex.traced, rt, g)
                 next == nextStore(getStore(outer, outer), ctx)
             IN evt' = IF ex.threw
                       THEN [InitEvt EXCEPT !.phase = "rejected", !.payload = payload,
                                            !.extract = extract, !.outer = outer,
                                            !.err = "ExtractError"]
                       ELSE [InitEvt EXCEPT !.phase = "running", !.payload = payload,
                                            !.extract = extract, !.outer = outer,
                                            !.traceContext = ctx, !.store = next,
                                            !.ambient = getTraceId(next),
                                            !.handlerCalls = 1,
                                            !.firstRead = getTraceId(next),
                                            !.traced = ex.traced]
    /\ UNCHANGED <<backendVars, extractVars, alsVars, sqs, api, lam, snd>>

(* the handler resumes after an await and reads the ambient id again *)
EvtHandlerAwaits ==
    /\ evt.phase = "running"
    /\ evt' = [evt EXCEPT !.ambient = getTraceId(getStore(evt.store, evt.outer))]
    /\ UNCHANGED <<backendVars, extractVars, alsVars, sqs, api, lam, snd>>

(* the handler returns: its result is the wrapper's result *)
EvtHandlerReturns ==
    /\ evt.phase = "running"
    /\ \E v \in HandlerValues :
          LET out == withTraceContextOutcome([kind |-> "resolved", err |-> "none"])
          IN evt' = [evt EXCEPT !.phase = IF out.kind = "resolved" THEN "returned" ELSE "rejected",
                                !.ambient = getTraceId(getStore(evt.store, evt.outer)),
                                !.value = v]
    /\ UNCHANGED <<backendVars, extractVars, alsVars, sqs, api, lam, snd>>

(* the handler throws: withTraceContext rejects and so does the wrapper *)
EvtHandlerThrows ==
    /\ evt.phase = "running"
    /\ \E e \in Errors :
          LET out == withTraceContextOutcome([kind |-> "rejected", err |-> e])
          IN evt' = [evt EXCEPT !.phase = IF out.kind = "rejected" THEN "rejected" ELSE "returned",
                                !.ambient = getTraceId(getStore(evt.store, evt.outer)),
                                !.thrown = e, !.err = out.err]
    /\ UNCHANGED <<backendVars, extractVars, alsVars, sqs, api, lam, snd>>

(* the invocation is over; the container takes the next event *)
EvtNextInvocation ==
    /\ evt.phase \in {"returned", "rejected"}
    /\ evt' = InitEvt
    /\ UNCHANGED <<backendVars, extractVars, alsVars, sqs, api, lam, snd>>

BothIdle == api.phase = "idle" /\ evt.phase = "idle"

(* the two wrappers, each in its own function, one invocation at a time *)
NextWrappers ==
    \/ (BothIdle /\ SetProcessEnv)
    \/ (BothIdle /\ SetSegment)
    \/ (BothIdle /\ ApiInvoke)
    \/ ApiHandlerAwaits
    \/ ApiHandlerReturns
    \/ ApiHandlerThrows
    \/ ApiNextInvocation
    \/ (BothIdle /\ EvtInvoke)
    \/ EvtHandlerAwaits
    \/ EvtHandlerReturns
    \/ EvtHandlerThrows
    \/ EvtNextInvocation

SpecWrappers == Init /\ [][NextWrappers]_vars

(* C14: if the wrapped handler rejects, tracedApiGatewayHandler and          *)
(* tracedEventHandler reject with the same error; no response or result is   *)
(* returned in its place.                                                    *)
C14_HandlerErrorPassedThrough ==
    /\ api.thrown # "none" =>
          api.phase = "rejected" /\ api.err = api.thrown /\ api.response = NoResult
    /\ evt.thrown # "none" =>
          evt.phase = "rejected" /\ evt.err = evt.thrown /\ evt.value = "none"

(* an event handler threw E2 after its first await and the wrapper rejected *)
C14_Witness ==
    /\ evt.phase = "rejected"
    /\ evt.thrown = "E2"
    /\ evt.err = "E2"
    /\ evt.handlerCalls = 1

(* an API handler threw and the wrapper rejected *)
ApiHandlerErrorReached == api.phase = "rejected" /\ api.thrown = "E1" /\ api.err = "E1"

-----------------------------------------------------------------------------
(* The fallback of the two extractors, compared *)

(* the branch of fromAPIGatewayEvent that returns, for a request without an  *)
(* explicit id                                                               *)
apiFallbackSource(rt) ==
    LET xrayAvailability == getXRayTracingAvailability(rt)
    IN IF xrayAvailability.isTracingEnabled
          /\ Truthy(extractRootTraceId(xrayAvailability.envVar)) THEN "env"
       ELSE IF xrayAvailability.isTracingEnabled
               /\ Truthy(getRootTraceIdFromSegment(getCurrentSegment(rt))) THEN "segment"
       ELSE "generated"

(* the branch of fromTracedEvent that returns, for an event without an       *)
(* explicit id                                                               *)
eventFallbackSource(rt) ==
    LET xrayAvailability == getXRayTracingAvailability(rt)
    IN IF xrayAvailability.isTracingEnabled
          /\ Truthy(getRootTraceIdFromEnvironment(rt)) THEN "env"
       ELSE IF xrayAvailability.isTracingEnabled
               /\ Truthy(getRootTraceIdFromSegment(getCurrentSegment(rt))) THEN "segment"
       ELSE "generated"

EmptyApiEvent == [hasHeaders |-> FALSE, headers |-> <<>>]

(* what the other extractor returns under the backend state of the last call *)
OtherExtractorResult ==
    IF lastCall.fn = "api" THEN fromTracedEvent(NoTracedEvent, lastCall.rt, lastCall.g)
    ELSE fromAPIGatewayEvent(EmptyApiEvent, lastCall.rt, lastCall.g)

(* C15: under the same backend state (ambient xrayEnv, process environment   *)
(* value, segment) and with no explicit id in the payload, the two           *)
(* extractors select the same candidate source, and return the same traceId  *)
(* when that source is the environment value or the segment.                 *)
C15_ExtractorsAgreeOnFallback ==
    (lastCall.fn \in {"api", "event"} /\ NoExplicitId) =>
        /\ apiFallbackSource(lastCall.rt) = eventFallbackSource(lastCall.rt)
        /\ apiFallbackSource(lastCall.rt) \in {"env", "segment"} =>
              lastCall.result.traceId = OtherExtractorResult.traceId

(* the same statement for calls made outside any ambient xrayEnv *)
ExtractorsAgreeWithoutAmbientEnv ==
    (lastCall.fn \in {"api", "event"} /\ NoExplicitId
        /\ ~getStoreXRayEnv(lastCall.rt.store).def) =>
        /\ apiFallbackSource(lastCall.rt) = eventFallbackSource(lastCall.rt)
        /\ apiFallbackSource(lastCall.rt) \in {"env", "segment"} =>
              lastCall.result.traceId = OtherExtractorResult.traceId

(* the selectors name the branch the extractors return from *)
FallbackSourceIsTheBranchTaken ==
    (lastCall.fn \in {"api", "event"} /\ NoExplicitId) =>
        LET src == IF lastCall.fn = "api" THEN apiFallbackSource(lastCall.rt)
                   ELSE eventFallbackSource(lastCall.rt)
            envRoot == IF lastCall.fn = "api"
                       THEN extractRootTraceId(getXRayTracingAvailability(lastCall.rt).envVar)
                       ELSE getRootTraceIdFromEnvironment(lastCall.rt)
        IN /\ src = "env" => lastCall.result.traceId = envRoot
           /\ src = "segment" =>
                 lastCall.result.traceId = getRootTraceIdFromSegment(getCurrentSegment(lastCall.rt))
           /\ src = "generated" => lastCall.result.traceId = generate(lastCall.g)

(* inside a scope whose xrayEnv is sampled, with no process environment     *)
(* value and no segment, the HTTP extractor returns the root of the ambient  *)
(* value and the event extractor generates                                   *)
ExtractorsDisagreeReached ==
    /\ lastCall.fn = "api"
    /\ NoExplicitId
    /\ getStoreXRayEnv(lastCall.rt.store) = Str(EnvSampledA)
    /\ ~lastCall.rt.envUpper.def /\ ~lastCall.rt.envLower.def
    /\ lastCall.rt.segment = NoSegment
    /\ lastCall.result.traceId = extractRootTraceId(Str(EnvSampledA))
    /\ apiFallbackSource(lastCall.rt) = "env"
    /\ eventFallbackSource(lastCall.rt) = "generated"
    /\ OtherExtractorResult.traceId = generate(lastCall.g)

-----------------------------------------------------------------------------
(* What a nested scope sees of its parent (SpecAls) *)

ContextFields == {"traceId", "spanId", "xrayEnv"}

FieldOf(store, f) ==
    IF ~store.active THEN Undefined
    ELSE IF f = "traceId" THEN store.traceId
    ELSE IF f = "spanId" THEN store.spanId
    ELSE store.xrayEnv

Running(t) == InScope(t) /\ tasks[t].op \in {"enter", "resume"}

-----------------------------------------------------------------------------
(* The segment as a source of fromAPIGatewayEvent (SpecExtract) *)

(* a request without an explicit id whose environment value yields no id     *)
(* (absent, unsampled or without a valid root) while the segment has one     *)
OnlySegmentHasId ==
    /\ lastCall.fn = "api"
    /\ NoExplicitId
    /\ LET a == getXRayTracingAvailability(lastCall.rt)
       IN ~(Truthy(a.envVar) /\ isSampled(a.envVar.s) /\ Truthy(extractRootTraceId(a.envVar)))
    /\ Truthy(getRootTraceIdFromSegment(getCurrentSegment(lastCall.rt)))

(* C17: with no trace-id header and an environment value that yields no id,  *)
(* fromAPIGatewayEvent returns the root id of the live segment when the      *)
(* segment carries a valid trace_id, instead of generating one.              *)
C17_SegmentBeforeGeneration ==
    OnlySegmentHasId =>
        lastCall.result.traceId = getRootTraceIdFromSegment(getCurrentSegment(lastCall.rt))

(* what the code does in that case: the id is generated *)
SegmentSkippedWithoutSampledEnv ==
    OnlySegmentHasId => lastCall.result.traceId = generate(lastCall.g)

(* fromAPIGatewayEvent never returns the segment's id in place of the        *)
(* environment's: whenever it is enabled the environment root is returned    *)
ApiSegmentBranchNeverTaken ==
    (lastCall.fn = "api" /\ NoExplicitId
        /\ getXRayTracingAvailability(lastCall.rt).isTracingEnabled)
    => lastCall.result.traceId
          = extractRootTraceId(getXRayTracingAvailability(lastCall.rt).envVar)

OnlySegmentHasIdReached ==
    /\ OnlySegmentHasId
    /\ lastCall.result.traceId = generate(lastCall.g)
    /\ getRootTraceIdFromSegment(getCurrentSegment(lastCall.rt)) = extractRootTraceId(Str(CoreC))
    /\ lastCall.rt.envUpper = Str(EnvUnsampledB)

-----------------------------------------------------------------------------
(* Empty explicit ids (SpecExtract) *)

EmptyString == Str(<<>>)

(* the header mapping without its i-th property *)
withoutHeader(event, i) ==
    [event EXCEPT !.headers = SubSeq(@, 1, i - 1) \o SubSeq(@, i + 1, Len(@))]

(* the request names the trace-id header under one key, holding "" *)
EmptyHeader ==
    /\ lastCall.fn = "api"
    /\ Cardinality(TraceHeaderPositions(lastCall.api)) = 1
    /\ \A i \in TraceHeaderPositions(lastCall.api) :
          lastCall.api.headers[i].value = EmptyString

EmptyEventFieldsReached ==
    /\ lastCall.fn = "event"
    /\ lastCall.ev.traceId = EmptyString
    /\ lastCall.ev.detail.kind = "object"
    /\ lastCall.ev.detail.traceId = EmptyString
    /\ lastCall.result.traceId = generate(lastCall.g)

(* {traceId: "", detail: {traceId: "Y"}}: the detail's id was returned *)
EmptyTopLevelFallsToDetailReached ==
    /\ lastCall.fn = "event"
    /\ lastCall.ev.traceId = EmptyString
    /\ detailTraceId(lastCall.ev.detail) = Str(IdY)
    /\ lastCall.result.traceId = Str(IdY)

-----------------------------------------------------------------------------
(* Letter-casing of the header name (SpecExtract) *)

HeaderCasings == {toLowerCase(TRACE_ID_HEADER), TRACE_ID_HEADER, UpperCaseHeader}

(* the keys of the request's mapping that spell the header, whatever the case *)
CasingsSent ==
    { lastCall.api.headers[i].key : i \in TraceHeaderPositions(lastCall.api) }

LowerCaseHeaderReached ==
    /\ lastCall.fn = "api"
    /\ CasingsSent = {toLowerCase(TRACE_ID_HEADER)}
    /\ lastCall.result.traceId = Str(IdAbc)

MixedCaseHeaderReached ==
    /\ lastCall.fn = "api"
    /\ CasingsSent = {TRACE_ID_HEADER}
    /\ lastCall.result.traceId = Str(IdAbc)

-----------------------------------------------------------------------------
(* Order of derivation and handler within one invocation (SpecWrappers) *)

(* the wrapper has derived a context and started the handler on it *)
ApiHandlerStarted == api.phase \in {"running", "returned", "rejected"}

EvtHandlerStarted ==
    \/ evt.phase \in {"running", "returned"}
    \/ evt.phase = "rejected" /\ evt.err # "ExtractError"

ApiHandlerStartedReached ==
    /\ api.phase = "running"
    /\ api.handlerCalls = 1
    /\ api.outer.active
    /\ api.firstRead = IdAbc

(* a throwing extractor ended the invocation before the handler *)
ExtractorThrewReached ==
    /\ evt.phase = "rejected"
    /\ evt.err = "ExtractError"
    /\ evt.handlerCalls = 0

-----------------------------------------------------------------------------
(* The execution id as the last source of fromEventBridgeEvent               *)
(* (SpecEventSources)                                                        *)

(* the nested event.id of the payload, as the caller wrote it *)
NestedEventId(event) == jsonGet(jsonGet(event, KeyEvent), KeyId)

(* the call found no explicit traceId, no usable traceHeader and no id in    *)
(* the X-Ray environment value or the segment                                *)
OnlyExecutionIdLeft ==
    /\ lastCall.fn = "eventbridge"
    /\ ~lastCall.threw
    /\ LET eventRecord == asRecord(lastCall.eb)
           detail == parseDetail(jsonGet(eventRecord, KeyDetail)).value
           metadata == asRecord(jsonGet(detail, KeyMetadata))
       IN \A o \in {eventRecord, detail, metadata} :
             /\ ~Truthy(normalizeTraceId(jsonGet(o, KeyTraceId)))
             /\ ~Truthy(extractRootTraceId(normalizeTraceId(jsonGet(o, KeyTraceHeader))))
    /\ ~Truthy(extractRootTraceId(Coalesce(lastCall.rt.envUpper, lastCall.rt.envLower)))
    /\ ~Truthy(getRootTraceIdFromSegment(getCurrentSegment(lastCall.rt)))

(* C21: with no explicit traceId, no usable traceHeader and no id from the   *)
(* X-Ray environment value or the segment, fromEventBridgeEvent returns the  *)
(* nested event.id; it generates a new id only when event.id is absent or    *)
(* empty.                                                                    *)
C21_ExecutionIdBeforeGeneration ==
    OnlyExecutionIdLeft =>
        LET id == NestedEventId(lastCall.eb)
        IN IF id.t = "string" /\ Len(id.s) > 0
           THEN lastCall.result.traceId = Str(id.s)
           ELSE lastCall.result.traceId = ulid(lastCall.g)

(* {event: {id: "exec-1"}} with no id from the backend: "exec-1" returned *)
C21_Witness ==
    /\ OnlyExecutionIdLeft
    /\ NestedEventId(lastCall.eb) = JString(ExecutionId)
    /\ lastCall.result.traceId = Str(ExecutionId)
    /\ lastCall.result.traceId # ulid(lastCall.g)

(* {event: {id: ""}}: a new id was generated *)
EmptyExecutionIdReached ==
    /\ OnlyExecutionIdLeft
    /\ NestedEventId(lastCall.eb) = JString(<<>>)
    /\ lastCall.result.traceId = ulid(lastCall.g)

(* the execution id never wins over an id of the X-Ray backend *)
ExecutionIdIsLast ==
    (lastCall.fn = "eventbridge" /\ ~lastCall.threw
        /\ lastCall.result.source = "execution") => OnlyExecutionIdLeft

-----------------------------------------------------------------------------
(* Errors of the derivation in tracedSqsHandler (SpecSqs) *)

(* C22: an error raised while a record's trace id is derived (an invalid     *)
(* JSON body with the default extractor, a throwing caller-supplied extract) *)
(* is absorbed: the batch call does not reject, the record still gets a      *)
(* trace id, and the sibling records are still processed.                    *)
C22_DerivationErrorAbsorbed ==
    /\ sqs.phase # "rejected"
    /\ \A i \in DOMAIN sqs.rec : sqs.rec[i].pc # "rejected"
    /\ sqs.phase = "resolved" =>
          \A i \in DOMAIN sqs.rec : Started(sqs.rec[i]) /\ sqs.rec[i].traceId.def

(* record i has no trace-id attribute and a body that is not JSON *)
BodyFailsToParse(i) ==
    /\ ~Truthy(sqs.records[i].attr)
    /\ sqs.records[i].body.kind \in {"invalid", "null"}

(* the same statement for the default extractor, which has a catch of its own *)
DefaultExtractorAbsorbs ==
    sqs.extract = "default" =>
        /\ sqs.phase # "rejected"
        /\ \A i \in DOMAIN sqs.rec :
              /\ sqs.rec[i].pc # "rejected"
              /\ (Started(sqs.rec[i]) /\ BodyFailsToParse(i))
                    => sqs.rec[i].traceId = generate(GenFor(i))
        /\ sqs.phase = "resolved" => \A i \in DOMAIN sqs.rec : Started(sqs.rec[i])

(* Scenario D: the second record's body is invalid JSON and its handler     *)
(* threw; the call resolved with that record as the only failure             *)
DefaultExtractorAbsorbsReached ==
    /\ sqs.extract = "default"
    /\ sqs.phase = "resolved"
    /\ Len(sqs.records) = 2
    /\ BodyFailsToParse(2)
    /\ sqs.rec[2].traceId = generate(GenFor(2))
    /\ sqs.rec[1].pc = "done"
    /\ FailureIds = {sqs.records[2].messageId}

(* a caller-supplied extract threw on the first record: the call rejected    *)
(* and, in sequential mode, the second record was never processed            *)
ExtractThrowRejectsReached ==
    /\ sqs.extract = "custom"
    /\ ~sqs.parallel
    /\ sqs.phase = "rejected"
    /\ Len(sqs.records) = 2
    /\ sqs.rec[1].pc = "rejected"
    /\ sqs.rec[2].pc = "pending"

-----------------------------------------------------------------------------
(* Order of the records in sequential mode (SpecSqs) *)

(* the messageIds of the records whose handler threw, in batch order *)
RECURSIVE ThrewInBatchOrder(_)
ThrewInBatchOrder(i) ==
    IF i = 0 THEN <<>>
    ELSE IF sqs.rec[i].threw
         THEN Append(ThrewInBatchOrder(i - 1), sqs.records[i].messageId)
         ELSE ThrewInBatchOrder(i - 1)

(* C23: in the default (non-parallel) mode the records are processed in      *)
(* batch order, the handler of a record is not started until the handler of  *)
(* the previous record has settled, by success or by failure, and            *)
(* batchItemFailures lists the failed ids in batch order.                    *)
C23_SequentialOrder ==
    ~sqs.parallel =>
        /\ \A i, j \in DOMAIN sqs.rec :
              (j < i /\ Started(sqs.rec[i])) => sqs.rec[j].pc \in {"done", "failed"}
        /\ sqs.failed = ThrewInBatchOrder(Len(sqs.rec))
        /\ sqs.phase = "resolved" =>
              sqs.batchItemFailures
                 = [k \in 1..Len(sqs.failed) |-> [itemIdentifier |-> sqs.failed[k]]]

(* three records in sequential mode: the first failed, the second succeeded, *)
(* the third failed, and the call resolved with the first and third id       *)
C23_Witness ==
    /\ ~sqs.parallel
    /\ sqs.phase = "resolved"
    /\ Len(sqs.records) = 3
    /\ sqs.rec[1].threw /\ ~sqs.rec[2].threw /\ sqs.rec[3].threw
    /\ sqs.batchItemFailures = <<[itemIdentifier |-> sqs.records[1].messageId],
                                 [itemIdentifier |-> sqs.records[3].messageId]>>

(* parallel mode gives no such order: a later record failed first *)
ParallelOutOfOrderReached ==
    /\ sqs.parallel
    /\ sqs.phase = "resolved"
    /\ Len(sqs.failed) = 2
    /\ sqs.failed # ThrewInBatchOrder(Len(sqs.rec))

-----------------------------------------------------------------------------
(* TracingContext of the tracing-test lambda: a store object per scope, read *)
(* through the AsyncLocalStorage instance held in the static field `als`.    *)
(* Store objects have identity: a continuation captures a reference, and     *)
(* executions started inside a scope share the object of that scope.         *)

MaxLamScopes == 2

MaxClears == 1

MaxSets == 2

(* store objects made within one run of the model *)
MaxLamObjects == 3

LamIds == {<<"A">>, <<"B">>}

(* this.als.getStore(): the object bound for this continuation in the        *)
(* instance that `als` holds now                                             *)
lambdaGetStore(l, frame) == IF frame.gen = l.gen THEN frame.obj ELSE 0

(* getStore()?.traceId *)
lambdaGetTraceId(l, frame) ==
    IF lambdaGetStore(l, frame) = 0 THEN Undefined ELSE l.heap[lambdaGetStore(l, frame)]

(* setTraceId: store.traceId = traceId on the current object, else           *)
(* als.enterWith({ traceId })                                                *)
lambdaSetTraceId(l, frame, traceId) ==
    IF lambdaGetStore(l, frame) # 0
    THEN [heap |-> [l.heap EXCEPT ![lambdaGetStore(l, frame)] = Str(traceId)], frame |-> frame]
    ELSE [heap |-> Append(l.heap, Str(traceId)),
          frame |-> [gen |-> l.gen, obj |-> Len(l.heap) + 1]]

(* withTraceId: next = { ...current, traceId } is a new object, bound by     *)
(* als.run for fn                                                            *)
lambdaWithTraceId(l, frame, traceId) ==
    [heap |-> Append(l.heap, Str(traceId)),
     frame |-> [gen |-> l.gen, obj |-> Len(l.heap) + 1]]

(* clear(): als = new AsyncLocalStorage() *)
lambdaClear(l) == [l EXCEPT !.gen = @ + 1]

LamTop(e) == Last(lam.exec[e].frames)

LamOpenScopes == Len(lam.exec[1].given) + Len(lam.exec[2].given)

(* the runtime starts an invocation outside every scope *)
LamStart(e) ==
    /\ lam.exec[e].status = "idle"
    /\ \A u \in LamExecs : u < e => lam.exec[u].status # "idle"
    /\ lam' = [lam EXCEPT !.exec[e] =
                  [IdleExec EXCEPT !.status = "run", !.frames = <<NoFrame>>, !.op = "start"]]
    /\ UNCHANGED <<backendVars, extractVars, alsVars, sqs, api, evt, snd>>

(* code of execution p inside a scope starts a sub-task without awaiting it: *)
(* the sub-task runs under the same store object                             *)
LamSpawn(p, e) ==
    /\ p < e
    /\ lam.exec[p].status = "run"
    /\ Len(lam.exec[p].given) > 0
    /\ lam.exec[e].status = "idle"
    /\ lam' = [lam EXCEPT !.exec[e] =
                  [IdleExec EXCEPT !.status = "run", !.frames = <<LamTop(p)>>,
                                   !.op = "start",
                                   !.read = lambdaGetTraceId(lam, LamTop(p))]]
    /\ UNCHANGED <<backendVars, extractVars, alsVars, sqs, api, evt, snd>>

(* await TracingContext.withTraceId(traceId, fn): fn starts and reads *)
LamWithTraceId(e, traceId) ==
    /\ lam.exec[e].status = "run"
    /\ LamOpenScopes < MaxLamScopes
    /\ Len(lam.heap) < MaxLamObjects
    /\ LET r == lambdaWithTraceId(lam, LamTop(e), traceId)
           l == [lam EXCEPT !.heap = r.heap]
       IN lam' = [l EXCEPT !.exec[e] =
                     [@ EXCEPT !.frames = Append(@, r.frame),
                               !.given = Append(@, traceId),
                               !.read = lambdaGetTraceId(l, r.frame),
                               !.op = "enter"]]
    /\ UNCHANGED <<backendVars, extractVars, alsVars, sqs, api, evt, snd>>

(* the running code calls TracingContext.setTraceId(traceId) *)
LamSetTraceId(e, traceId) ==
    /\ lam.exec[e].status = "run"
    /\ lam.sets < MaxSets
    /\ lambdaGetStore(lam, LamTop(e)) = 0 => Len(lam.heap) < MaxLamObjects
    /\ LET r == lambdaSetTraceId(lam, LamTop(e), traceId)
       IN lam' = [lam EXCEPT !.heap = r.heap,
                             !.sets = @ + 1,
                             !.exec[e] = [@ EXCEPT !.frames = Append(Front(@), r.frame),
                                                   !.op = "set"]]
    /\ UNCHANGED <<backendVars, extractVars, alsVars, sqs, api, evt, snd>>

(* the running code resumes after an await and calls getTraceId() *)
LamRead(e) ==
    /\ lam.exec[e].status = "run"
    /\ lam' = [lam EXCEPT !.exec[e] =
                  [@ EXCEPT !.read = lambdaGetTraceId(lam, LamTop(e)), !.op = "read"]]
    /\ UNCHANGED <<backendVars, extractVars, alsVars, sqs, api, evt, snd>>

(* the running code calls TracingContext.clear() *)
LamClear(e) ==
    /\ lam.exec[e].status = "run"
    /\ lam.gen <= MaxClears
    /\ lam' = [lambdaClear(lam) EXCEPT !.exec[e] = [@ EXCEPT !.op = "clear"]]
    /\ UNCHANGED <<backendVars, extractVars, alsVars, sqs, api, evt, snd>>

(* fn settles: the caller of withTraceId resumes under the store it had *)
LamExit(e) ==
    /\ lam.exec[e].status = "run"
    /\ Len(lam.exec[e].given) > 0
    /\ lam' = [lam EXCEPT !.exec[e] =
                  [@ EXCEPT !.frames = Front(@),
                            !.given = Front(@),
                            !.read = lambdaGetTraceId(lam, Last(Front(lam.exec[e].frames))),
                            !.op = "exit"]]
    /\ UNCHANGED <<backendVars, extractVars, alsVars, sqs, api, evt, snd>>

(* the execution settles *)
LamFinish(e) ==
    /\ lam.exec[e].status = "run"
    /\ Len(lam.exec[e].given) = 0
    /\ lam' = [lam EXCEPT !.exec[e] = [IdleExec EXCEPT !.status = "done", !.op = "done"]]
    /\ UNCHANGED <<backendVars, extractVars, alsVars, sqs, api, evt, snd>>

NextLambdaContext ==
    \/ \E e \in LamExecs : LamStart(e)
    \/ \E p, e \in LamExecs : LamSpawn(p, e)
    \/ \E e \in LamExecs, id \in LamIds : LamWithTraceId(e, id)
    \/ \E e \in LamExecs, id \in LamIds : LamSetTraceId(e, id)
    \/ \E e \in LamExecs : LamRead(e)
    \/ \E e \in LamExecs : LamClear(e)
    \/ \E e \in LamExecs : LamExit(e)
    \/ \E e \in LamExecs : LamFinish(e)

SpecLambdaContext == Init /\ [][NextLambdaContext]_vars

-----------------------------------------------------------------------------
(* Properties of the lambda's TracingContext (SpecLambdaContext) *)

LamInScope(e) == lam.exec[e].status = "run" /\ Len(lam.exec[e].given) > 0

(* the id the innermost withTraceId scope of e was entered with *)
LamOwnId(e) == Str(Last(lam.exec[e].given))

(* C24: a context held by the ambient store is never mutated in place:       *)
(* within a scope entered by withTraceId, the store object of the scope      *)
(* holds the traceId of scope entry until scope exit, whatever setTraceId    *)
(* calls the code of the scope or its sub-tasks make.                        *)
C24_ContextNeverMutated ==
    \A e \in LamExecs :
        (LamInScope(e) /\ LamTop(e).gen = lam.gen)
            => lambdaGetTraceId(lam, LamTop(e)) = LamOwnId(e)

(* a sub-task called setTraceId and the scope that started it reads the      *)
(* sub-task's id                                                             *)
SubTaskMutationReached ==
    /\ LamInScope(1)
    /\ lam.exec[1].op = "read"
    /\ lam.exec[2].op = "set"
    /\ lam.exec[2].frames = <<LamTop(1)>>
    /\ lam.exec[1].read # LamOwnId(1)
    /\ lam.exec[1].read = Str(<<"B">>)

(* as long as nobody calls setTraceId or clear, every scope reads its own id *)
ScopesKeepIdWithoutSetAndClear ==
    (lam.sets = 0 /\ lam.gen = 1) =>
        \A e \in LamExecs :
            LamInScope(e) /\ lam.exec[e].op \in {"enter", "read", "exit"}
                => lam.exec[e].read = LamOwnId(e)

(* C26: clear() called by one execution does not change what another         *)
(* execution that is inside a withTraceId scope reads from getTraceId(): it  *)
(* keeps reading its own traceId until its scope exits.                      *)
C26_ClearLeavesOtherScopes ==
    \A e \in LamExecs :
        (LamInScope(e) /\ lam.heap[LamTop(e).obj] = LamOwnId(e))
            => lambdaGetTraceId(lam, LamTop(e)) = LamOwnId(e)

(* execution 2 called clear() and execution 1, inside its scope, then read   *)
(* undefined                                                                 *)
ClearSeenByOtherReached ==
    /\ LamInScope(1)
    /\ lam.exec[1].op = "read"
    /\ lam.exec[2].op = "clear"
    /\ lam.sets = 0
    /\ lam.exec[1].read = Undefined

-----------------------------------------------------------------------------
(* The ambient id of a record handler is not empty (SpecSqs) *)

(* C25: inside every record handler run by tracedSqsHandler the ambient      *)
(* traceId is a non-empty string, for every extract option, a                *)
(* caller-supplied extract that returns undefined or "" included.            *)
C25_RecordIdNonEmpty ==
    \A i \in DOMAIN sqs.rec :
        Started(sqs.rec[i]) =>
            /\ Truthy(sqs.rec[i].traceId)
            /\ Len(sqs.rec[i].read) > 0

(* the same statement for the default extractor *)
DefaultRecordIdNonEmpty == sqs.extract = "default" => C25_RecordIdNonEmpty

(* a caller-supplied extract returned undefined: the handler runs under a    *)
(* generated id                                                              *)
UndefinedExtractGeneratesReached ==
    /\ sqs.extract = "custom"
    /\ \E i \in DOMAIN sqs.rec :
          /\ sqs.rec[i].pc = "awaiting"
          /\ sqs.rec[i].traceId = generate(GenFor(i))
          /\ sqs.rec[i].read = generate(GenFor(i)).s

(* a caller-supplied extract returned "": the handler reads "" *)
EmptyExtractReached ==
    /\ sqs.extract = "custom"
    /\ sqs.outer = NoStore
    /\ \E i \in DOMAIN sqs.rec :
          /\ sqs.rec[i].pc = "awaiting"
          /\ sqs.rec[i].traceId = Str(<<>>)
          /\ sqs.rec[i].read = <<>>

-----------------------------------------------------------------------------
(* The default extractor of tracedEventHandler (SpecWrappers) *)

(* the object carries traceId or detail.traceId *)
CarriesId(o) == Truthy(o.traceId) \/ Truthy(detailTraceId(o.detail))

TopLevelOf(payload) == [traceId |-> payload.traceId, detail |-> payload.detail]

WrappedOf(payload) == [traceId |-> payload.event.traceId, detail |-> payload.event.detail]

(* the explicit id of a TracedEvent that carries one *)
ExplicitIdOf(o) == IF Truthy(o.traceId) THEN o.traceId ELSE detailTraceId(o.detail)

(* C27: the default extractor of tracedEventHandler hands the payload itself *)
(* to fromTracedEvent when it has a top-level traceId or detail.traceId,     *)
(* else the object under `event` when that one carries traceId or            *)
(* detail.traceId, else the payload itself; the handler's ambient traceId is *)
(* the id of the object handed over, so a top-level id wins over one under   *)
(* `event`.                                                                  *)
C27_DefaultExtractorShape ==
    (evt.extract = "default" /\ EvtHandlerStarted) =>
        LET p == evt.payload
        IN /\ CarriesId(TopLevelOf(p)) =>
                 /\ evt.traced = TopLevelOf(p)
                 /\ evt.firstRead = ExplicitIdOf(TopLevelOf(p)).s
           /\ (~CarriesId(TopLevelOf(p)) /\ p.event.present /\ CarriesId(WrappedOf(p))) =>
                 /\ evt.traced = WrappedOf(p)
                 /\ evt.firstRead = ExplicitIdOf(WrappedOf(p)).s
           /\ (~CarriesId(TopLevelOf(p)) /\ ~(p.event.present /\ CarriesId(WrappedOf(p)))) =>
                 evt.traced = TopLevelOf(p)

(* {traceId: "Y", event: {traceId: "X"}}: the handler reads "Y" *)
C27_Witness ==
    /\ evt.extract = "default"
    /\ evt.phase = "running"
    /\ evt.payload.traceId = Str(IdY)
    /\ evt.payload.event.present
    /\ evt.payload.event.traceId = Str(IdX)
    /\ evt.firstRead = IdY

(* {event: {traceId: "X"}}: the handler reads "X" *)
WrappedIdReached ==
    /\ evt.extract = "default"
    /\ evt.phase = "running"
    /\ ~CarriesId(TopLevelOf(evt.payload))
    /\ evt.payload.event.traceId = Str(IdX)
    /\ evt.outer.active
    /\ evt.firstRead = IdX

(* {event: {detail: {traceId: "abc123"}}}: the handler reads "abc123" *)
WrappedDetailIdReached ==
    /\ evt.extract = "default"
    /\ evt.phase = "running"
    /\ detailTraceId(evt.payload.event.detail) = Str(IdAbc)
    /\ evt.firstRead = IdAbc

-----------------------------------------------------------------------------
(* Every record is handled once and the batch call ends (SpecSqsFair) *)

(* a record handler that has started eventually returns or throws, the loop  *)
(* goes on when it can, and the wrapper returns when every processRecord     *)
(* promise has fulfilled                                                     *)
SqsFairness ==
    /\ \A i \in 1..Len(RecordCatalogue) :
          /\ WF_vars(SqsHandlerReturns(i) \/ SqsHandlerThrows(i))
          /\ WF_vars(SqsStartNext(i))
    /\ WF_vars(SqsResolve)
    /\ WF_vars(SqsReject)

SpecSqsFair == Init /\ [][NextSqs]_vars /\ SqsFairness

(* with the default extractor: no handler is invoked twice, and the call     *)
(* resolves only when every record's handler was invoked once and settled    *)
HandledOnce ==
    sqs.extract = "default" =>
        /\ \A i \in DOMAIN sqs.rec :
              /\ sqs.rec[i].calls <= 1
              /\ Started(sqs.rec[i]) <=> sqs.rec[i].calls = 1
        /\ sqs.phase = "resolved" =>
              \A i \in DOMAIN sqs.rec :
                  sqs.rec[i].calls = 1 /\ sqs.rec[i].pc \in {"done", "failed"}

(* C28: for every batch, in sequential and in parallel mode, with the        *)
(* default extractor the record handler is invoked exactly once for each     *)
(* record, records after a failed one included; provided every record        *)
(* handler eventually settles the batch call eventually resolves, and it     *)
(* resolves only after all record handlers have settled.                     *)
C28_EachRecordOnceAndResolves ==
    /\ []HandledOnce
    /\ (sqs.phase = "running" /\ sqs.extract = "default") ~> (sqs.phase = "resolved")

(* sequential mode, three records, the first handler failed, the two after   *)
(* it were still invoked once each and the call resolved                     *)
C28_Witness ==
    /\ sqs.extract = "default"
    /\ ~sqs.parallel
    /\ sqs.phase = "resolved"
    /\ Len(sqs.records) = 3
    /\ sqs.rec[1].pc = "failed"
    /\ \A i \in DOMAIN sqs.rec : sqs.rec[i].calls = 1
    /\ sqs.rec[2].pc = "done" /\ sqs.rec[3].pc = "done"

(* the same in parallel mode *)
ParallelAllHandledReached ==
    /\ sqs.extract = "default"
    /\ sqs.parallel
    /\ sqs.phase = "resolved"
    /\ Len(sqs.records) = 3
    /\ sqs.rec[1].pc = "failed"
    /\ \A i \in DOMAIN sqs.rec : sqs.rec[i].calls = 1

-----------------------------------------------------------------------------
(* What tracedApiGatewayHandler leaves of the handler's response (SpecApi) *)

(* the entries of a headers mapping other than X-Trace-Id, in their order *)
OtherHeaders(headers) == SelectSeq(headers, LAMBDA h : h.key # TRACE_ID_HEADER)

(* C29: tracedApiGatewayHandler changes nothing in the handler's response    *)
(* except the X-Trace-Id entry: statusCode, body and every other header key  *)
(* and value are the handler's, a response without headers gets a mapping    *)
(* holding only X-Trace-Id, and an X-Trace-Id set by the handler is replaced *)
(* by the derived traceId.                                                   *)
C29_ResponseFrame ==
    api.phase = "returned" =>
        /\ api.response.statusCode = api.result.statusCode
        /\ api.response.body = api.result.body
        /\ DOMAIN api.response = DOMAIN api.result
        /\ OtherHeaders(api.response.headers) = OtherHeaders(api.result.headers)
        /\ ~api.result.hasHeaders =>
              api.response.headers
                 = <<[key |-> TRACE_ID_HEADER, value |-> api.traceContext.traceId]>>
        /\ TraceHeaderValues(api.response.headers) = {api.traceContext.traceId}

(* a 500 response with a body, a content-type and an X-Trace-Id of the       *)
(* handler's own: only the X-Trace-Id value differs in the wrapper's response *)
C29_Witness ==
    /\ api.phase = "returned"
    /\ api.result.statusCode = 500
    /\ api.result.headers = OwnTraceHeader
    /\ api.response.body = BodyFor(500)
    /\ api.response.headers
          = <<[key |-> TRACE_ID_HEADER, value |-> api.traceContext.traceId],
              [key |-> ContentType, value |-> Str(Json)]>>
    /\ api.traceContext.traceId # Str(IdOld)

(* a response without headers got a mapping with X-Trace-Id alone *)
NoHeadersResponseReached ==
    /\ api.phase = "returned"
    /\ ~api.result.hasHeaders
    /\ Len(api.response.headers) = 1
    /\ api.response.headers[1].key = TRACE_ID_HEADER

-----------------------------------------------------------------------------
(* The event-sender handler behind tracedApiGatewayHandler (SpecSender) *)

KeyRaw == <<"r","a","w">>

KeyBody == <<"b","o","d","y">>

KeyRequestData == <<"r","e","q","u","e","s","t","D","a","t","a">>

KeyTracing == <<"t","r","a","c","i","n","g">>

KeyMessage == <<"m","e","s","s","a","g","e">>

CONTENT_TYPE == <<"C","o","n","t","e","n","t","-","T","y","p","e">>

ApplicationJson == <<"a","p","p","l","i","c","a","t","i","o","n","/","j","s","o","n">>

InternalServerError ==
    <<"I","n","t","e","r","n","a","l"," ","s","e","r","v","e","r"," ","e","r","r","o","r">>

(* event.body of the requests: none, empty, text that is not JSON, an object *)
(* that carries a traceId of its own, and the literal null                   *)
RequestBodies ==
    {Undefined, Str(<<>>), Str(RawJsonText), Str(EncodedDetailText), Str(NullLit)}

(* requests the sender is invoked with: no trace header (the id comes from   *)
(* the backend or is generated), or Scenario B                               *)
SenderRequests == { e \in ApiRequests : e.headers = <<>> } \cup {ScenarioBEvent}

(* parseRequestBody: {} for no body, the parsed value, { raw: body } for     *)
(* text that does not parse                                                  *)
parseRequestBody(body) ==
    IF ~Truthy(body) THEN JObject(<<>>)
    ELSE LET parsed == JSONparse(body.s)
         IN IF parsed.ok THEN parsed.value
            ELSE JObject(<<[key |-> KeyRaw, value |-> JString(body.s)]>>)

(* Message: JSON.stringify({ ...requestBody, traceId: getTraceId() }) *)
snsMessage(requestBody, store) ==
    JSONstringify(jsonSet(requestBody, KeyTraceId, JString(getTraceId(store))))

(* the 200 response the handler builds; of its body the members requestData  *)
(* .body and tracing.traceId are kept, and the indentation is left out       *)
successResponse(requestBody, store, xrayEnvVar) ==
    [statusCode |-> 200, hasHeaders |-> TRUE,
     headers |-> <<[key |-> TRACE_ID_HEADER, value |-> Coalesce(xrayEnvVar, Str(<<>>))]>>,
     body |-> JSONstringify(JObject(
                 <<[key |-> KeyRequestData,
                    value |-> JObject(<<[key |-> KeyBody, value |-> requestBody]>>)],
                   [key |-> KeyTracing,
                    value |-> JObject(<<[key |-> KeyTraceId,
                                         value |-> JString(getTraceId(store))]>>)]>>))]

(* the 500 response of the handler's catch block *)
errorResponse ==
    [statusCode |-> 500, hasHeaders |-> TRUE,
     headers |-> <<[key |-> CONTENT_TYPE, value |-> Str(ApplicationJson)]>>,
     body |-> JSONstringify(JObject(<<[key |-> KeyMessage,
                                       value |-> JString(InternalServerError)]>>))]

(* the handler returns result: the wrapper, resumed in the caller's store,   *)
(* adds the trace header                                                     *)
senderReturns(s, result) ==
    [s EXCEPT !.phase = "returned", !.result = result,
              !.response = wrapResponse(result, s.traceContext,
                                        storeAfterRun(s.outer, s.store))]

(* the runtime invokes the handler: the wrapper derives the context, the     *)
(* handler parses the body inside withTraceContext and, with a bus           *)
(* configured, hands the Detail to PutEvents and awaits; with none it        *)
(* returns the response                                                      *)
SenderInvoke ==
    /\ snd.phase = "idle"
    /\ \E event \in SenderRequests, body \in RequestBodies, outer \in OuterStores,
          g \in GenInputs, busName \in BOOLEAN, topicArn \in BOOLEAN :
          LET rt == [envUpper |-> envUpper, envLower |-> envLower, segment |-> segment,
                     store |-> outer]
              traceContext == fromAPIGatewayEvent(event, rt, g)
              next == nextStore(getStore(outer, outer), traceContext)
              requestBody == parseRequestBody(body)
              started == [InitSnd EXCEPT !.event = event, !.body = body,
                                         !.busName = busName, !.topicArn = topicArn,
                                         !.outer = outer, !.traceContext = traceContext,
                                         !.store = next, !.requestBody = requestBody]
          IN snd' = IF busName
                    THEN [started EXCEPT !.phase = "putEvents", !.sentDetail = TRUE,
                                         !.detail = sendEvent(requestBody, next)]
                    ELSE senderReturns(started, successResponse(requestBody, next, envUpper))
    /\ UNCHANGED <<backendVars, extractVars, alsVars, sqs, api, evt, lam>>

(* PutEvents answers: the handler resumes, and with a topic configured       *)
(* publishes the message and awaits; with none it returns the response       *)
SenderPutEventsResolves ==
    /\ snd.phase = "putEvents"
    /\ LET store == getStore(snd.store, snd.outer)
       IN snd' = IF snd.topicArn
                 THEN [snd EXCEPT !.phase = "publish", !.sentMessage = TRUE,
                                  !.message = snsMessage(snd.requestBody, store)]
                 ELSE senderReturns(snd, successResponse(snd.requestBody, store, envUpper))
    /\ UNCHANGED <<backendVars, extractVars, alsVars, sqs, api, evt, lam>>

(* PutEvents fails: sendEvent rethrows and the handler's catch block         *)
(* returns the 500 response                                                  *)
SenderPutEventsRejects ==
    /\ snd.phase = "putEvents"
    /\ snd' = senderReturns([snd EXCEPT !.putFailed = TRUE], errorResponse)
    /\ UNCHANGED <<backendVars, extractVars, alsVars, sqs, api, evt, lam>>

(* the publish settles, fulfilled or rejected (the inner catch only logs):   *)
(* the handler resumes and returns the response                              *)
SenderPublishSettles ==
    /\ snd.phase = "publish"
    /\ snd' = senderReturns(snd, successResponse(snd.requestBody,
                                                 getStore(snd.store, snd.outer), envUpper))
    /\ UNCHANGED <<backendVars, extractVars, alsVars, sqs, api, evt, lam>>

(* the invocation is over; the container takes the next request *)
SenderNextInvocation ==
    /\ snd.phase = "returned"
    /\ snd' = InitSnd
    /\ UNCHANGED <<backendVars, extractVars, alsVars, sqs, api, evt, lam>>

NextSender ==
    \/ (snd.phase = "idle" /\ SetProcessEnv)
    \/ (snd.phase = "idle" /\ SetSegment)
    \/ SenderInvoke
    \/ SenderPutEventsResolves
    \/ SenderPutEventsRejects
    \/ SenderPublishSettles
    \/ SenderNextInvocation

SpecSender == Init /\ [][NextSender]_vars

(* the traceId member of a JSON text *)
TraceIdIn(text) == jsonGet(JSONparse(text).value, KeyTraceId)

(* tracing.traceId of a response body *)
TracingTraceIdIn(text) == jsonGet(jsonGet(JSONparse(text).value, KeyTracing), KeyTraceId)

DerivedId == JString(snd.traceContext.traceId.s)

(* C30: within one invocation of the event-sender handler, the traceId in    *)
(* the EventBridge Detail, the traceId in the SNS message, tracing.traceId   *)
(* in the response body and the X-Trace-Id response header all equal the     *)
(* traceId derived for the request, whatever the request body carried and    *)
(* whichever await the handler has passed.                                   *)
C30_OneIdInEveryArtifact ==
    /\ snd.phase # "idle" => Truthy(snd.traceContext.traceId)
    /\ snd.sentDetail => TraceIdIn(snd.detail) = DerivedId
    /\ snd.sentMessage => TraceIdIn(snd.message) = DerivedId
    /\ snd.phase = "returned" =>
          /\ \E i \in DOMAIN snd.response.headers :
                /\ snd.response.headers[i].key = TRACE_ID_HEADER
                /\ snd.response.headers[i].value = snd.traceContext.traceId
          /\ \A i \in DOMAIN snd.response.headers :
                snd.response.headers[i].key = TRACE_ID_HEADER
                    => snd.response.headers[i].value = snd.traceContext.traceId
          /\ snd.response.statusCode = 200
                => TracingTraceIdIn(snd.response.body) = DerivedId

(* an invocation inside another context, whose request body carried another  *)
(* traceId, passed both awaits and returned with all four artifacts, while   *)
(* the handler itself had put another value under X-Trace-Id                 *)
C30_Witness ==
    /\ snd.phase = "returned"
    /\ snd.sentDetail
    /\ snd.sentMessage
    /\ snd.response.statusCode = 200
    /\ snd.outer.active
    /\ getTraceId(snd.outer) # snd.traceContext.traceId.s
    /\ jsonGet(snd.requestBody, KeyTraceId) = JString(IdEvt7)
    /\ snd.result.headers[1].value # snd.traceContext.traceId
    /\ TraceIdIn(snd.detail) = DerivedId
    /\ TraceIdIn(snd.message) = DerivedId

(* PutEvents failed: the 500 response has no tracing member and still gets   *)
(* the derived id as its trace header                                        *)
SenderErrorResponseReached ==
    /\ snd.phase = "returned"
    /\ snd.putFailed
    /\ snd.response.statusCode = 500
    /\ Len(snd.response.headers) = 2

====
